---- MODULE Spec2Model ----
(***************************************************************************)
(* news-sentiment: the debounced, uncancelled fetch of a ticker's          *)
(* sentiment rows and the state it writes, for the three page scripts of   *)
(* the repository:                                                         *)
(*   "react"   webapp/src/_components/home/index.tsx (NSSHeader) with the  *)
(*             zustand store of unnamed/part_001                           *)
(*   "vanilla" the pipe-text page script held in webpack.config.js         *)
(*   "csv"     the CSV page script webapp/src/_home/script.js              *)
(* A JavaScript string is a tuple of one-character strings, so that trim,  *)
(* split, parseInt and toUpperCase are computed character by character.    *)
(***************************************************************************)
EXTENDS Integers, Sequences, FiniteSets, TLC

VARIABLES
  page,           \* which page script is running
  exchange,       \* react: store.exchange
  ticker,         \* react: store.ticker
  data,           \* react: store.data
  loading,        \* react: store.loading
  status,         \* react: store.status
  tickerInp,      \* vanilla/csv: value of the #ticker input
  exchangeInp,    \* vanilla: value of the #exchange select
  currentTicker,  \* vanilla/csv: let currentTicker
  currentData,    \* vanilla/csv: let currentData
  statusEl,       \* vanilla/csv: statusEl.textContent
  rowsEl,         \* vanilla/csv: the <tr> rows of #sentiment-rows
  dirty,          \* vanilla/csv: #ticker was edited since its last change event
  timers,         \* the pending setTimeout callbacks, oldest first
  t,              \* the timer handle the next clearTimeout is given
  loads,          \* every loadTicker call so far, in call order
  lastSettled,    \* the index in loads of the call that wrote its outcome last
  view,           \* react NSSMain: useState 'table' | 'chart'
  chartType,      \* react NSSMain: useState ChartType
  selectedYear,   \* react SentimentCalendar: useState, 0 while it is not mounted
  downloaded,     \* the content of the last downloadBlob call, <<>> before the first
  csvFile,        \* csv: the text of the data file the page is served, <<>> when not drawn
  rootDark,       \* document.documentElement.classList.contains('dark')
  ariaPressed,    \* the aria-pressed attribute of #toggle-theme-btn, "" when absent
  storedTheme,    \* localStorage 'theme', "null" when absent
  storageOk,      \* localStorage can be read and written (it throws otherwise)
  prefersDark,    \* matchMedia('(prefers-color-scheme: dark)').matches
  booted          \* the theme initialisation of the page has run

vars == <<page, exchange, ticker, data, loading, status, tickerInp, exchangeInp,
          currentTicker, currentData, statusEl, rowsEl, dirty, timers, t, loads,
          lastSettled, view, chartType, selectedYear, downloaded, csvFile, rootDark,
          ariaPressed, storedTheme, storageOk, prefersDark, booted>>

reactVars == <<exchange, ticker, data, loading, status>>
domVars == <<tickerInp, exchangeInp, currentTicker, currentData, statusEl, rowsEl, dirty>>
chartVars == <<view, chartType, selectedYear>>
themeVars == <<rootDark, ariaPressed, storedTheme, storageOk, prefersDark, booted>>

(***************************************************************************)
(* Bounds                                                                  *)
(***************************************************************************)
\* loadTicker calls per behaviour
MaxLoads == 2
\* rows of a response handed to the charts
MaxRows == 3
\* the year of the clock, new Date().getFullYear()
ThisYear == 2025

\* rows of one day in the longest response
MaxRepeat == 15

\* characters in a line of a drawn data file
MaxLine == 5

(***************************************************************************)
(* JavaScript strings and numbers                                          *)
(***************************************************************************)
Lower == <<"a","b","c","d","e","f","g","h","i","j","k","l","m",
           "n","o","p","q","r","s","t","u","v","w","x","y","z">>
UpperAZ == <<"A","B","C","D","E","F","G","H","I","J","K","L","M",
             "N","O","P","Q","R","S","T","U","V","W","X","Y","Z">>
Digits == <<"0","1","2","3","4","5","6","7","8","9">>
WhiteSpace == {" ", "\t", "\n", "\r"}

\* index of c in the tuple s, 0 when absent
IndexOf(s, c) == IF \E i \in 1..Len(s) : s[i] = c
                 THEN CHOOSE i \in 1..Len(s) : s[i] = c ELSE 0

\* String.prototype.toUpperCase / toLowerCase
toUpperCase(s) == [i \in 1..Len(s) |->
                    IF IndexOf(Lower, s[i]) > 0 THEN UpperAZ[IndexOf(Lower, s[i])] ELSE s[i]]
toLowerCase(s) == [i \in 1..Len(s) |->
                    IF IndexOf(UpperAZ, s[i]) > 0 THEN Lower[IndexOf(UpperAZ, s[i])] ELSE s[i]]

\* String.prototype.trim
RECURSIVE trimStart(_)
trimStart(s) == IF s # <<>> /\ Head(s) \in WhiteSpace THEN trimStart(Tail(s)) ELSE s
RECURSIVE trimEnd(_)
trimEnd(s) == IF s # <<>> /\ s[Len(s)] \in WhiteSpace
              THEN trimEnd(SubSeq(s, 1, Len(s) - 1)) ELSE s
trim(s) == trimEnd(trimStart(s))

\* String.prototype.split(sep) for a one-character separator
RECURSIVE split(_, _)
split(s, sep) ==
  IF IndexOf(s, sep) = 0 THEN <<s>>
  ELSE <<SubSeq(s, 1, IndexOf(s, sep) - 1)>>
         \o split(SubSeq(s, IndexOf(s, sep) + 1, Len(s)), sep)

\* text.split(/\r?\n/): a "\r" right before the "\n" belongs to the separator
stripCR(s) == IF s # <<>> /\ s[Len(s)] = "\r" THEN SubSeq(s, 1, Len(s) - 1) ELSE s
splitLines(text) ==
  LET parts == split(text, "\n")
  IN  [i \in 1..Len(parts) |-> IF i < Len(parts) THEN stripCR(parts[i]) ELSE parts[i]]

\* A JavaScript number: an integer or NaN
Num(n) == [finite |-> TRUE, value |-> n]
NaN == [finite |-> FALSE, value |-> 0]
isFinite(x) == x.finite

\* the value of the longest prefix of decimal digits, read left to right
RECURSIVE digitsValue(_, _)
digitsValue(s, acc) ==
  IF s # <<>> /\ IndexOf(Digits, Head(s)) > 0
  THEN digitsValue(Tail(s), acc * 10 + (IndexOf(Digits, Head(s)) - 1))
  ELSE acc

\* parseInt(s, 10): leading white space, an optional sign, then digits
parseInt(s) ==
  LET u == trimStart(s)
      neg == u # <<>> /\ Head(u) = "-"
      v == IF u # <<>> /\ Head(u) \in {"-", "+"} THEN Tail(u) ELSE u
  IN  IF v = <<>> \/ IndexOf(Digits, Head(v)) = 0 THEN NaN
      ELSE Num(IF neg THEN 0 - digitsValue(v, 0) ELSE digitsValue(v, 0))

\* the characters of s as one TLA+ string
RECURSIVE Str(_)
Str(s) == IF s = <<>> THEN "" ELSE Head(s) \o Str(Tail(s))

\* String(x) of a number
numberToString(x) == IF isFinite(x) THEN ToString(x.value) ELSE "NaN"

\* Array.prototype.filter / map, for the arrays of lines and rows
RECURSIVE filterNonEmpty(_)
filterNonEmpty(ls) ==
  IF ls = <<>> THEN <<>>
  ELSE (IF Head(ls) # <<>> THEN <<Head(ls)>> ELSE <<>>) \o filterNonEmpty(Tail(ls))

(***************************************************************************)
(* Row Parser                                                              *)
(***************************************************************************)
\* the value of an absent property or array element
undefined == <<"undefined">>

\* const [date, scoreStr] = ln.split('|')
scoreStrOf(ln) == IF Len(split(ln, "|")) >= 2 THEN split(ln, "|")[2] ELSE undefined

\* { date: date.trim(), score: parseInt(scoreStr.trim(), 10) } of one line
pipeRow(ln) ==
  [date |-> trim(split(ln, "|")[1]),
   score |-> parseInt(IF scoreStrOf(ln) = undefined THEN <<>> ELSE trim(scoreStrOf(ln)))]

\* index.tsx: one row per non-empty line, whatever the line holds
reactParse(text) ==
  LET lines == filterNonEmpty(splitLines(text))
  IN  [i \in 1..Len(lines) |-> pipeRow(lines[i])]

\* webpack.config.js parsePipeText: the loop body's two `continue`s after `if (!ln)`
pipeLineKept(ln) ==
  /\ split(ln, "|")[1] # <<>>
  /\ isFinite(parseInt(IF scoreStrOf(ln) = undefined THEN <<>> ELSE trim(scoreStrOf(ln))))

RECURSIVE pipeRows(_)
pipeRows(lines) ==
  IF lines = <<>> THEN <<>>
  ELSE (IF Head(lines) # <<>> /\ pipeLineKept(Head(lines))
        THEN <<pipeRow(Head(lines))>> ELSE <<>>) \o pipeRows(Tail(lines))

parsePipeText(text) == pipeRows(splitLines(text))

\* a variant of the loop that toggles the flag on every quote
RECURSIVE splitCSVFromNoEscape(_, _, _, _)
splitCSVFromNoEscape(line, i, cur, inQuotes) ==
  IF i > Len(line) THEN <<cur>>
  ELSE IF line[i] = "\""
       THEN splitCSVFromNoEscape(line, i + 1, cur, ~inQuotes)
       ELSE IF line[i] = "," /\ ~inQuotes
            THEN <<cur>> \o splitCSVFromNoEscape(line, i + 1, <<>>, inQuotes)
            ELSE splitCSVFromNoEscape(line, i + 1, Append(cur, line[i]), inQuotes)

\* script.js splitCSVLine: the loop from index i with the field so far and the quote flag
RECURSIVE splitCSVFrom(_, _, _, _)
splitCSVFrom(line, i, cur, inQuotes) ==
  IF i > Len(line) THEN <<cur>>
  ELSE IF line[i] = "\""
       THEN IF inQuotes /\ i + 1 <= Len(line) /\ line[i + 1] = "\""
            THEN splitCSVFrom(line, i + 2, Append(cur, "\""), inQuotes)
            ELSE splitCSVFrom(line, i + 1, cur, ~inQuotes)
       ELSE IF line[i] = "," /\ ~inQuotes
            THEN <<cur>> \o splitCSVFrom(line, i + 1, <<>>, inQuotes)
            ELSE splitCSVFrom(line, i + 1, Append(cur, line[i]), inQuotes)

splitCSVLine(line) == splitCSVFrom(line, 1, <<>>, FALSE)

\* headers.forEach((h, idx) => (obj[h] = fields[idx] ?? "")): a later equal header wins
csvObject(headers, fields) ==
  [h \in {headers[i] : i \in 1..Len(headers)} |->
     LET idx == CHOOSE i \in 1..Len(headers) :
                  headers[i] = h /\ \A j \in 1..Len(headers) : headers[j] = h => j <= i
     IN  IF idx <= Len(fields) THEN fields[idx] ELSE <<>>]

\* script.js parseCSV: [headers, rows]
parseCSV(text) ==
  LET lines == splitLines(trim(text))
      headers == splitCSVLine(lines[1])
      body == filterNonEmpty(Tail(lines))
  IN  [headers |-> headers,
       rows |-> [i \in 1..Len(body) |-> csvObject(headers, splitCSVLine(body[i]))]]

\* headers.find(h => h.toLowerCase() === name) || name
headerKey(headers, name) ==
  IF \E i \in 1..Len(headers) : toLowerCase(headers[i]) = name
  THEN headers[CHOOSE i \in 1..Len(headers) :
                 /\ toLowerCase(headers[i]) = name
                 /\ \A j \in 1..(i - 1) : toLowerCase(headers[j]) # name]
  ELSE name

\* r[key]
prop(obj, key) == IF key \in DOMAIN obj THEN obj[key] ELSE undefined

\* script.js loadTicker: the rows mapped to the table shape
csvData(text) ==
  LET p == parseCSV(text)
      dateKey == headerKey(p.headers, <<"d","a","t","e">>)
      newsKey == headerKey(p.headers, <<"s","e","n","t","i","m","e","n","t">>)
  IN  [i \in 1..Len(p.rows) |->
         [date |-> prop(p.rows[i], dateKey), score |-> prop(p.rows[i], newsKey)]]

(***************************************************************************)
(* The response bodies the endpoint (or the static file) can answer with   *)
(***************************************************************************)
RECURSIVE join(_, _)
join(lines, sep) ==
  IF lines = <<>> THEN <<>>
  ELSE IF Len(lines) = 1 THEN lines[1]
  ELSE lines[1] \o sep \o join(Tail(lines), sep)

Ln0101n == <<"2","0","2","4","-","0","1","-","0","1","|","0">>
Ln0102p == <<"2","0","2","4","-","0","1","-","0","2","|","1">>
Ln0102g == <<"2","0","2","4","-","0","1","-","0","2","|","2">>
LnBadDate == <<"n","o","t","-","a","-","d","a","t","e","|","1">>
LnBadScore == <<"2","0","2","4","-","0","1","-","0","1","|","a","b","c">>
LnRange == <<"2","0","2","3","-","1","2","-","3","1","|","5">>

PipeTexts ==
  << <<>>,
     join(<<Ln0101n, Ln0102p, Ln0102g, <<>> >>, <<"\n">>),
     join(<<LnBadDate, LnBadScore, <<>>, LnRange>>, <<"\r", "\n">>) >>

CsvTexts ==
  << <<>>,
     join(<< <<"d","a","t","e",",","s","e","n","t","i","m","e","n","t">>,
             <<"2","0","2","4","-","0","1","-","0","1",",","0">>,
             <<"2","0","2","4","-","0","1","-","0","2",",","1">> >>, <<"\n">>),
     join(<< <<"D","a","t","e",",","n","o","t","e">>,
             <<"2","0","2","4","-","0","1","-","0","3",",","\"","a",",","b","\"">> >>,
          <<"\n">>) >>

(***************************************************************************)
(* Selections the user can make                                            *)
(***************************************************************************)
NASDAQ == <<"N","A","S","D","A","Q">>
NYSE == <<"N","Y","S","E">>
Exchanges == {NASDAQ, NYSE}
Tickers == { <<>>, <<" ">>, <<"a","a","p","l">>, <<"i","b","m">> }

(***************************************************************************)
(* Status texts                                                            *)
(***************************************************************************)
SelectPrompt == "Select an exchange and enter a ticker symbol to load data."
EnterPrompt == "Enter a ticker symbol to load data."
LoadingStatus(tk) == "Loading " \o Str(toUpperCase(tk)) \o "..."
LoadedStatus(tk, n) == Str(toUpperCase(tk)) \o " loaded: " \o ToString(n) \o " rows."
NoDataStatus(tk) == "No data found for " \o Str(toUpperCase(tk)) \o "."

(***************************************************************************)
(* Timers: setTimeout / clearTimeout.  A timer is due once its delay has   *)
(* elapsed; the delays of one page are equal, so timers fall due and run   *)
(* in the order they were set.                                             *)
(***************************************************************************)

RECURSIVE removeTimer(_, _)
removeTimer(ts, id) ==
  IF ts = <<>> THEN <<>>
  ELSE (IF Head(ts).id = id THEN <<>> ELSE <<Head(ts)>>) \o removeTimer(Tail(ts), id)

\* clearTimeout(id)
clearTimeout(ts, id) == removeTimer(ts, id)

\* the handle setTimeout returns: one that names no pending timer
NewTimerId(ts) == CHOOSE n \in 1..(Len(ts) + 1) :
                    /\ \A i \in 1..Len(ts) : ts[i].id # n
                    /\ \A m \in 1..(n - 1) : \E i \in 1..Len(ts) : ts[i].id = m

\* setTimeout(cb, delay); cb is named by what it captured
setTimeout(ts, tk, ex) ==
  Append(ts, [id |-> NewTimerId(ts), due |-> FALSE, ticker |-> tk, exchange |-> ex])

\* the delay of the oldest timer that is not yet due elapses
Elapse ==
  /\ \E i \in 1..Len(timers) :
       /\ ~timers[i].due
       /\ \A j \in 1..(i - 1) : timers[j].due
       /\ timers' = [timers EXCEPT ![i].due = TRUE]
  /\ UNCHANGED <<page, chartVars, downloaded, csvFile, themeVars, reactVars, domVars, t, loads, lastSettled>>

(***************************************************************************)
(* loadTicker calls                                                        *)
(***************************************************************************)
\* a call suspended at `await fetch(...)` for ticker tk
NewLoad(tk) == [ticker |-> tk, pc |-> "fetch", res |-> "pending"]

\* a call that returned from the missing-selection branch
MissingLoad(tk) == [ticker |-> tk, pc |-> "done", res |-> "missing"]

\* the call's record once it has written its outcome res
Done(l, res) == [l EXCEPT !.pc = "done", !.res = res]

\* the endpoint (or the static file) of one session: the body it answers a request
\* for ticker tk with, whenever it answers 2xx
PipeBody(tk) ==
  IF toLowerCase(trim(tk)) = <<"a","a","p","l">> THEN PipeTexts[2]
  ELSE IF toLowerCase(trim(tk)) = <<"i","b","m">> THEN PipeTexts[3]
  ELSE PipeTexts[1]
CsvBody(tk) ==
  IF csvFile # <<>> THEN csvFile
  ELSE IF toLowerCase(trim(tk)) = <<"a","a","p","l">> THEN CsvTexts[2]
  ELSE IF toLowerCase(trim(tk)) = <<"i","b","m">> THEN CsvTexts[3]
  ELSE CsvTexts[1]

\* fetch resolved with res.ok: the call now awaits res.text()
\* mutant of FetchOk: the arrival of the response headers ends the loading state
FetchOkClearsLoading(i) ==
  /\ i \in 1..Len(loads)
  /\ loads[i].pc = "fetch"
  /\ loads' = [loads EXCEPT ![i].pc = "text"]
  /\ loading' = FALSE
  /\ UNCHANGED <<page, chartVars, downloaded, csvFile, themeVars, exchange, ticker, data, status, domVars, timers, t, lastSettled>>

FetchOk(i) ==
  /\ i \in 1..Len(loads)
  /\ loads[i].pc = "fetch"
  /\ loads' = [loads EXCEPT ![i].pc = "text"]
  /\ UNCHANGED <<page, chartVars, downloaded, csvFile, themeVars, reactVars, domVars, timers, t, lastSettled>>

(***************************************************************************)
(* react: NSSHeader over the zustand store                                 *)
(***************************************************************************)
\* useEffect([ticker, exchange, loadTicker]): the cleanup of the previous run, then
\* setTimeout(() => loadTicker(), 500) with the loadTicker of this render
ReactEffect(tk, ex) ==
  /\ timers' = setTimeout(clearTimeout(timers, t), tk, ex)
  /\ t' = NewTimerId(clearTimeout(timers, t))

\* mutant of SetTicker: the input is disabled while loading is true
SetTickerDisabledWhileLoading(v) ==
  /\ page = "react"
  /\ ~loading
  /\ v # ticker
  /\ ticker' = v
  /\ ReactEffect(v, exchange)
  /\ UNCHANGED <<page, chartVars, downloaded, csvFile, themeVars, exchange, data, loading, status, domVars, loads, lastSettled>>

\* <input onChange={(e) => setTicker(e.target.value)}>
SetTicker(v) ==
  /\ page = "react"
  /\ v # ticker
  /\ ticker' = v
  /\ ReactEffect(v, exchange)
  /\ UNCHANGED <<page, chartVars, downloaded, csvFile, themeVars, exchange, data, loading, status, domVars, loads, lastSettled>>

\* <select onChange={(e) => setExchange(e.target.value)}>
SetExchange(e) ==
  /\ page = "react"
  /\ e # exchange
  /\ exchange' = e
  /\ ReactEffect(ticker, e)
  /\ UNCHANGED <<page, chartVars, downloaded, csvFile, themeVars, ticker, data, loading, status, domVars, loads, lastSettled>>

\* if (!ticker || !exchange)
ReactMissing(tk, ex) == tk = <<>> \/ ex = <<>>

\* mutant of ReactLoadTicker: the missing-selection branch leaves the rows in place
ReactLoadTickerKeepsRows ==
  /\ page = "react"
  /\ timers # <<>> /\ Head(timers).due
  /\ Len(loads) < MaxLoads
  /\ LET tk == Head(timers).ticker
         ex == Head(timers).exchange
     IN  IF ReactMissing(tk, ex)
         THEN /\ status' = SelectPrompt
              /\ loads' = Append(loads, MissingLoad(tk))
              /\ lastSettled' = Len(loads) + 1
              /\ UNCHANGED <<loading, data>>
         ELSE /\ loading' = TRUE
              /\ status' = LoadingStatus(tk)
              /\ loads' = Append(loads, NewLoad(tk))
              /\ UNCHANGED <<data, lastSettled>>
  /\ timers' = Tail(timers)
  /\ UNCHANGED <<page, chartVars, downloaded, csvFile, themeVars, exchange, ticker, t, domVars>>

\* mutant of ReactLoadTicker: entering Loading empties the rows held
ReactLoadTickerClearsRows ==
  /\ page = "react"
  /\ timers # <<>> /\ Head(timers).due
  /\ Len(loads) < MaxLoads
  /\ LET tk == Head(timers).ticker
         ex == Head(timers).exchange
     IN  IF ReactMissing(tk, ex)
         THEN /\ status' = SelectPrompt
              /\ data' = <<>>
              /\ loads' = Append(loads, MissingLoad(tk))
              /\ lastSettled' = Len(loads) + 1
              /\ UNCHANGED loading
         ELSE /\ loading' = TRUE
              /\ status' = LoadingStatus(tk)
              /\ data' = <<>>
              /\ loads' = Append(loads, NewLoad(tk))
              /\ UNCHANGED lastSettled
  /\ timers' = Tail(timers)
  /\ UNCHANGED <<page, chartVars, downloaded, csvFile, themeVars, exchange, ticker, t, domVars>>

\* the timer runs loadTicker up to its first await (or its early return)
ReactLoadTicker ==
  /\ page = "react"
  /\ timers # <<>> /\ Head(timers).due
  /\ Len(loads) < MaxLoads
  /\ LET tk == Head(timers).ticker
         ex == Head(timers).exchange
     IN  IF ReactMissing(tk, ex)
         THEN /\ status' = SelectPrompt
              /\ data' = <<>>
              /\ loads' = Append(loads, MissingLoad(tk))
              /\ lastSettled' = Len(loads) + 1
              /\ UNCHANGED loading
         ELSE /\ loading' = TRUE
              /\ status' = LoadingStatus(tk)
              /\ loads' = Append(loads, NewLoad(tk))
              /\ UNCHANGED <<data, lastSettled>>
  /\ timers' = Tail(timers)
  /\ UNCHANGED <<page, chartVars, downloaded, csvFile, themeVars, exchange, ticker, t, domVars>>

\* mutant of ReactFailed: the catch block sets the status and leaves the rows in place
ReactFailedKeepsRows(i) ==
  /\ page = "react"
  /\ i \in 1..Len(loads)
  /\ loads[i].pc \in {"fetch", "text"}
  /\ status' = NoDataStatus(loads[i].ticker)
  /\ loading' = FALSE
  /\ loads' = [loads EXCEPT ![i] = Done(@, "failed")]
  /\ lastSettled' = i
  /\ UNCHANGED <<page, chartVars, downloaded, csvFile, themeVars, exchange, ticker, data, domVars, timers, t>>

\* fetch rejected, !res.ok, or res.text() rejected: catch, then finally
ReactFailed(i) ==
  /\ page = "react"
  /\ i \in 1..Len(loads)
  /\ loads[i].pc \in {"fetch", "text"}
  /\ status' = NoDataStatus(loads[i].ticker)
  /\ data' = <<>>
  /\ loading' = FALSE
  /\ loads' = [loads EXCEPT ![i] = Done(@, "failed")]
  /\ lastSettled' = i
  /\ UNCHANGED <<page, chartVars, downloaded, csvFile, themeVars, exchange, ticker, domVars, timers, t>>

\* mutant of ReactLoaded: a response is applied only if its call is the latest one
ReactLoadedIfLatest(i) ==
  /\ page = "react"
  /\ i \in 1..Len(loads)
  /\ loads[i].pc = "text"
  /\ IF i = Len(loads)
     THEN /\ data' = reactParse(PipeBody(loads[i].ticker))
          /\ status' = LoadedStatus(loads[i].ticker,
                                    Len(reactParse(PipeBody(loads[i].ticker))))
     ELSE UNCHANGED <<data, status>>
  /\ loading' = FALSE
  /\ loads' = [loads EXCEPT ![i] = Done(@, "ok")]
  /\ lastSettled' = i
  /\ UNCHANGED <<page, chartVars, downloaded, csvFile, themeVars, exchange, ticker, domVars, timers, t>>

\* mutant of ReactLoaded: the parsed rows are appended to the rows held
ReactLoadedMerges(i) ==
  /\ page = "react"
  /\ i \in 1..Len(loads)
  /\ loads[i].pc = "text"
  /\ data' = data \o reactParse(PipeBody(loads[i].ticker))
  /\ status' = LoadedStatus(loads[i].ticker, Len(reactParse(PipeBody(loads[i].ticker))))
  /\ loading' = FALSE
  /\ loads' = [loads EXCEPT ![i] = Done(@, "ok")]
  /\ lastSettled' = i
  /\ UNCHANGED <<page, chartVars, downloaded, csvFile, themeVars, exchange, ticker, domVars, timers, t>>

\* res.text() resolved: parse, setData, setStatus, then finally
ReactLoaded(i) ==
  /\ page = "react"
  /\ i \in 1..Len(loads)
  /\ loads[i].pc = "text"
  /\ data' = reactParse(PipeBody(loads[i].ticker))
  /\ status' = LoadedStatus(loads[i].ticker, Len(reactParse(PipeBody(loads[i].ticker))))
  /\ loading' = FALSE
  /\ loads' = [loads EXCEPT ![i] = Done(@, "ok")]
  /\ lastSettled' = i
  /\ UNCHANGED <<page, chartVars, downloaded, csvFile, themeVars, exchange, ticker, domVars, timers, t>>

(***************************************************************************)
(* vanilla: the pipe-text page script                                      *)
(***************************************************************************)
\* debounce(fn, delay): clearTimeout(t); t = setTimeout(() => fn(...args), delay)
DebouncedLoad ==
  /\ timers' = setTimeout(clearTimeout(timers, t), <<>>, <<>>)
  /\ t' = NewTimerId(clearTimeout(timers, t))

\* renderRows(items): one <tr> of [date, String(score)] per row
renderRows(items) == [i \in 1..Len(items) |-> <<items[i].date, numberToString(items[i].score)>>]

\* the user edits #ticker; keyup -> debouncedLoad()
VanillaKeyup(v) ==
  /\ page = "vanilla"
  /\ tickerInp' = v
  /\ dirty' = (dirty \/ v # tickerInp)
  /\ DebouncedLoad
  /\ UNCHANGED <<page, chartVars, downloaded, csvFile, themeVars, reactVars, exchangeInp, currentTicker, currentData, statusEl,
                 rowsEl, loads, lastSettled>>

\* #ticker commits an edited value (Enter or blur); change -> debouncedLoad()
VanillaTickerChange ==
  /\ page = "vanilla"
  /\ dirty
  /\ dirty' = FALSE
  /\ DebouncedLoad
  /\ UNCHANGED <<page, chartVars, downloaded, csvFile, themeVars, reactVars, tickerInp, exchangeInp, currentTicker, currentData,
                 statusEl, rowsEl, loads, lastSettled>>

\* the user picks an exchange; change -> debouncedLoad()
VanillaExchangeChange(e) ==
  /\ page = "vanilla"
  /\ e # exchangeInp
  /\ exchangeInp' = e
  /\ DebouncedLoad
  /\ UNCHANGED <<page, chartVars, downloaded, csvFile, themeVars, reactVars, tickerInp, currentTicker, currentData, statusEl,
                 rowsEl, dirty, loads, lastSettled>>

\* if (!ticker || !exchange) after both were trimmed
VanillaMissing(tk, ex) == trim(tk) = <<>> \/ trim(ex) = <<>>

\* the timer runs the debounced callback: loadTicker(v, exchange) up to its first await
VanillaLoadTicker ==
  /\ page = "vanilla"
  /\ timers # <<>> /\ Head(timers).due
  /\ Len(loads) < MaxLoads
  /\ LET tk == trim(tickerInp)
         ex == trim(exchangeInp)
     IN  IF VanillaMissing(tk, ex)
         THEN /\ statusEl' = SelectPrompt
              /\ currentTicker' = <<>>
              /\ currentData' = <<>>
              /\ rowsEl' = <<>>
              /\ loads' = Append(loads, MissingLoad(tk))
              /\ lastSettled' = Len(loads) + 1
         ELSE /\ statusEl' = LoadingStatus(tk)
              /\ loads' = Append(loads, NewLoad(tk))
              /\ UNCHANGED <<currentTicker, currentData, rowsEl, lastSettled>>
  /\ timers' = Tail(timers)
  /\ UNCHANGED <<page, chartVars, downloaded, csvFile, themeVars, reactVars, tickerInp, exchangeInp, dirty, t>>

\* mutant of VanillaFailed: the catch block empties the rows and keeps currentTicker
VanillaFailedKeepsTicker(i) ==
  /\ page = "vanilla"
  /\ i \in 1..Len(loads)
  /\ loads[i].pc \in {"fetch", "text"}
  /\ statusEl' = NoDataStatus(loads[i].ticker)
  /\ currentData' = <<>>
  /\ rowsEl' = <<>>
  /\ loads' = [loads EXCEPT ![i] = Done(@, "failed")]
  /\ lastSettled' = i
  /\ UNCHANGED <<page, chartVars, downloaded, csvFile, themeVars, reactVars, currentTicker, tickerInp, exchangeInp, dirty, timers, t>>

\* fetch rejected, !res.ok, or res.text() rejected: the catch block
VanillaFailed(i) ==
  /\ page = "vanilla"
  /\ i \in 1..Len(loads)
  /\ loads[i].pc \in {"fetch", "text"}
  /\ statusEl' = NoDataStatus(loads[i].ticker)
  /\ currentTicker' = <<>>
  /\ currentData' = <<>>
  /\ rowsEl' = <<>>
  /\ loads' = [loads EXCEPT ![i] = Done(@, "failed")]
  /\ lastSettled' = i
  /\ UNCHANGED <<page, chartVars, downloaded, csvFile, themeVars, reactVars, tickerInp, exchangeInp, dirty, timers, t>>

\* mutant of VanillaLoaded: the status counts the lines of the text, not the rows
VanillaLoadedCountsLines(i) ==
  /\ page = "vanilla"
  /\ i \in 1..Len(loads)
  /\ loads[i].pc = "text"
  /\ currentTicker' = toUpperCase(loads[i].ticker)
  /\ currentData' = parsePipeText(PipeBody(loads[i].ticker))
  /\ rowsEl' = renderRows(parsePipeText(PipeBody(loads[i].ticker)))
  /\ statusEl' = LoadedStatus(loads[i].ticker, Len(splitLines(PipeBody(loads[i].ticker))))
  /\ loads' = [loads EXCEPT ![i] = Done(@, "ok")]
  /\ lastSettled' = i
  /\ UNCHANGED <<page, chartVars, downloaded, csvFile, themeVars, reactVars, tickerInp, exchangeInp, dirty, timers, t>>

\* res.text() resolved: parsePipeText, then the four writes
VanillaLoaded(i) ==
  /\ page = "vanilla"
  /\ i \in 1..Len(loads)
  /\ loads[i].pc = "text"
  /\ currentTicker' = toUpperCase(loads[i].ticker)
  /\ currentData' = parsePipeText(PipeBody(loads[i].ticker))
  /\ rowsEl' = renderRows(parsePipeText(PipeBody(loads[i].ticker)))
  /\ statusEl' = LoadedStatus(loads[i].ticker, Len(parsePipeText(PipeBody(loads[i].ticker))))
  /\ loads' = [loads EXCEPT ![i] = Done(@, "ok")]
  /\ lastSettled' = i
  /\ UNCHANGED <<page, chartVars, downloaded, csvFile, themeVars, reactVars, tickerInp, exchangeInp, dirty, timers, t>>

(***************************************************************************)
(* csv: the CSV page script                                                *)
(***************************************************************************)
\* renderRows(items) of string-valued rows: th.textContent = row.date (null-like
\* values give ""), td.textContent = String(row.score)
csvRenderRows(items) ==
  [i \in 1..Len(items) |->
     <<IF items[i].date = undefined THEN <<>> ELSE items[i].date,
       IF items[i].score = undefined THEN "undefined" ELSE Str(items[i].score)>>]

\* loadTicker(tickerRaw) up to its first await (or its early return)
CsvLoadTicker(tickerRaw) ==
  /\ Len(loads) < MaxLoads
  /\ IF trim(tickerRaw) = <<>>
     THEN /\ statusEl' = EnterPrompt
          /\ currentTicker' = <<>>
          /\ currentData' = <<>>
          /\ rowsEl' = <<>>
          /\ loads' = Append(loads, MissingLoad(trim(tickerRaw)))
          /\ lastSettled' = Len(loads) + 1
     ELSE /\ statusEl' = LoadingStatus(trim(tickerRaw))
          /\ loads' = Append(loads, NewLoad(trim(tickerRaw)))
          /\ UNCHANGED <<currentTicker, currentData, rowsEl, lastSettled>>

\* the user edits #ticker; keyup -> debouncedLoad()
CsvKeyup(v) ==
  /\ page = "csv"
  /\ tickerInp' = v
  /\ dirty' = (dirty \/ v # tickerInp)
  /\ DebouncedLoad
  /\ UNCHANGED <<page, chartVars, downloaded, csvFile, themeVars, reactVars, exchangeInp, currentTicker, currentData, statusEl,
                 rowsEl, loads, lastSettled>>

\* #ticker commits an edited value (Enter or blur); change -> loadTicker(input.value)
CsvChange ==
  /\ page = "csv"
  /\ dirty
  /\ dirty' = FALSE
  /\ CsvLoadTicker(tickerInp)
  /\ UNCHANGED <<page, chartVars, downloaded, csvFile, themeVars, reactVars, tickerInp, exchangeInp, timers, t>>

\* the timer runs the debounced callback: if (v) loadTicker(v)
CsvTimerFire ==
  /\ page = "csv"
  /\ timers # <<>> /\ Head(timers).due
  /\ IF trim(tickerInp) # <<>>
     THEN CsvLoadTicker(trim(tickerInp))
     ELSE UNCHANGED <<currentTicker, currentData, statusEl, rowsEl, loads, lastSettled>>
  /\ timers' = Tail(timers)
  /\ UNCHANGED <<page, chartVars, downloaded, csvFile, themeVars, reactVars, tickerInp, exchangeInp, dirty, t>>

\* fetch rejected, !res.ok, or res.text() rejected: the catch block
CsvFailed(i) ==
  /\ page = "csv"
  /\ i \in 1..Len(loads)
  /\ loads[i].pc \in {"fetch", "text"}
  /\ statusEl' = NoDataStatus(loads[i].ticker)
  /\ currentTicker' = <<>>
  /\ currentData' = <<>>
  /\ rowsEl' = <<>>
  /\ loads' = [loads EXCEPT ![i] = Done(@, "failed")]
  /\ lastSettled' = i
  /\ UNCHANGED <<page, chartVars, downloaded, csvFile, themeVars, reactVars, tickerInp, exchangeInp, dirty, timers, t>>

\* res.text() resolved: parseCSV, the header mapping, then the four writes
CsvLoaded(i) ==
  /\ page = "csv"
  /\ i \in 1..Len(loads)
  /\ loads[i].pc = "text"
  /\ currentTicker' = toUpperCase(loads[i].ticker)
  /\ currentData' = csvData(CsvBody(loads[i].ticker))
  /\ rowsEl' = csvRenderRows(csvData(CsvBody(loads[i].ticker)))
  /\ statusEl' = LoadedStatus(loads[i].ticker, Len(csvData(CsvBody(loads[i].ticker))))
  /\ loads' = [loads EXCEPT ![i] = Done(@, "ok")]
  /\ lastSettled' = i
  /\ UNCHANGED <<page, chartVars, downloaded, csvFile, themeVars, reactVars, tickerInp, exchangeInp, dirty, timers, t>>

(***************************************************************************)
(* The pages after their scripts ran (react: after the first render and    *)
(* its effects, which set the first debounce timer)                        *)
(***************************************************************************)
\* the theme of a page whose initialisation found 'light' stored; no file drawn
ThemeAtRest ==
  /\ csvFile = <<>>
  /\ rootDark = FALSE
  /\ ariaPressed = (IF page = "vanilla" THEN "false" ELSE "")
  /\ storedTheme = "light"
  /\ storageOk = TRUE
  /\ prefersDark = FALSE
  /\ booted = TRUE

Init ==
  /\ page \in {"react", "vanilla", "csv"}
  /\ exchange = NASDAQ
  /\ ticker = <<>>
  /\ data = <<>>
  /\ loading = FALSE
  /\ status = ""
  /\ tickerInp = <<>>
  /\ exchangeInp = <<>>
  /\ currentTicker = <<>>
  /\ currentData = <<>>
  /\ statusEl = ""
  /\ rowsEl = <<>>
  /\ dirty = FALSE
  /\ timers = IF page = "react"
              THEN <<[id |-> 1, due |-> FALSE, ticker |-> <<>>, exchange |-> NASDAQ]>>
              ELSE <<>>
  /\ t = IF page = "react" THEN 1 ELSE 0
  /\ loads = <<>>
  /\ lastSettled = 0
  /\ view = "table"
  /\ chartType = "stacked-y"
  /\ selectedYear = 0
  /\ downloaded = <<>>
  /\ ThemeAtRest

Next ==
  \/ \E v \in Tickers : SetTicker(v)
  \/ \E e \in Exchanges : SetExchange(e)
  \/ ReactLoadTicker
  \/ \E i \in 1..MaxLoads : ReactFailed(i)
  \/ \E i \in 1..MaxLoads : ReactLoaded(i)
  \/ \E v \in Tickers : VanillaKeyup(v)
  \/ VanillaTickerChange
  \/ \E e \in Exchanges : VanillaExchangeChange(e)
  \/ VanillaLoadTicker
  \/ \E i \in 1..MaxLoads : VanillaFailed(i)
  \/ \E i \in 1..MaxLoads : VanillaLoaded(i)
  \/ \E v \in Tickers : CsvKeyup(v)
  \/ CsvChange
  \/ CsvTimerFire
  \/ \E i \in 1..MaxLoads : CsvFailed(i)
  \/ \E i \in 1..MaxLoads : CsvLoaded(i)
  \/ \E i \in 1..MaxLoads : FetchOk(i)
  \/ Elapse

Spec == Init /\ [][Next]_vars

(***************************************************************************)
(* Dates.  A Date at local midnight is the number of its day, counted from *)
(* 1970-01-01; time zones and the hours of a day are left out.             *)
(***************************************************************************)
\* new Date(y, m - 1, d) for a month number m and a day number d of any size: the
\* month carries into the year and the day into the month
daysFromCivil(y, m, d) ==
  LET yy  == y - (IF m <= 2 THEN 1 ELSE 0)
      era == yy \div 400
      yoe == yy - era * 400
      doy == (153 * (m + (IF m > 2 THEN -3 ELSE 9)) + 2) \div 5 + d - 1
      doe == yoe * 365 + yoe \div 4 - yoe \div 100 + doy
  IN  era * 146097 + doe - 719468

newDate(y, m, d) ==
  daysFromCivil(y + ((m - 1) \div 12), ((m - 1) % 12) + 1, 1) + (d - 1)

\* getFullYear, getMonth() + 1, getDate of a day number
civilFromDays(z) ==
  LET zz  == z + 719468
      era == zz \div 146097
      doe == zz - era * 146097
      yoe == (doe - doe \div 1460 + doe \div 36524 - doe \div 146096) \div 365
      doy == doe - (365 * yoe + yoe \div 4 - yoe \div 100)
      mp  == (5 * doy + 2) \div 153
      mm  == IF mp < 10 THEN mp + 3 ELSE mp - 9
  IN  [y |-> yoe + era * 400 + (IF mm <= 2 THEN 1 ELSE 0),
       m |-> mm,
       d |-> doy - (153 * mp + 2) \div 5 + 1]

getFullYear(z) == civilFromDays(z).y

\* d3-time-format numberRe /^\s*\d+/ on string.slice(i, i + w): white space, then digits
RECURSIVE skipSpace(_, _, _)
skipSpace(s, i, last) ==
  IF i <= last /\ s[i] \in WhiteSpace THEN skipSpace(s, i + 1, last) ELSE i

RECURSIVE skipDigits(_, _, _)
skipDigits(s, i, last) ==
  IF i <= last /\ IndexOf(Digits, s[i]) > 0 THEN skipDigits(s, i + 1, last) ELSE i

parseNumber(s, i, w) ==
  LET last == IF i + w - 1 < Len(s) THEN i + w - 1 ELSE Len(s)
      from == skipSpace(s, i, last)
      to   == skipDigits(s, from, last)
  IN  [ok |-> to > from, value |-> digitsValue(SubSeq(s, from, to - 1), 0), next |-> to]

\* a literal character of the specifier
parseLiteral(s, i, c) == i <= Len(s) /\ s[i] = c

\* d3.timeParse('%Y-%m-%d'): null unless the whole string matches; the fields are
\* handed to new Date unchecked
Invalid == [ok |-> FALSE, day |-> 0]
timeParse(s) ==
  LET y == parseNumber(s, 1, 4)
      m == parseNumber(s, y.next + 1, 2)
      d == parseNumber(s, m.next + 1, 2)
  IN  IF /\ y.ok /\ parseLiteral(s, y.next, "-")
         /\ m.ok /\ parseLiteral(s, m.next, "-")
         /\ d.ok /\ d.next = Len(s) + 1
      THEN [ok |-> TRUE, day |-> newDate(y.value, m.value, d.value)]
      ELSE Invalid

\* d3-time-format pad(value, "0", width)
RECURSIVE pad(_, _)
pad(n, width) ==
  IF width = 0 THEN <<>> ELSE Append(pad(n \div 10, width - 1), Digits[(n % 10) + 1])

\* d3.timeFormat('%Y-%m-%d'), d3.timeFormat('%Y')
fmtDay(z) ==
  LET c == civilFromDays(z)
  IN  pad(c.y % 10000, 4) \o <<"-">> \o pad(c.m, 2) \o <<"-">> \o pad(c.d, 2)
fmtYear(z) == pad(getFullYear(z) % 10000, 4)

\* d3.timeParse('%Y'): the first day of the year
parseYear(s) ==
  LET y == parseNumber(s, 1, 4)
  IN  IF y.ok /\ y.next = Len(s) + 1
      THEN [ok |-> TRUE, day |-> newDate(y.value, 1, 1)] ELSE Invalid

(***************************************************************************)
(* The rows the store can hand to NSSMain: what the inline parser of       *)
(* NSSHeader stores for the lines of a response, in any order.             *)
(***************************************************************************)
D1231 == <<"2","0","2","3","-","1","2","-","3","1">>
D0101 == <<"2","0","2","4","-","0","1","-","0","1">>
D0102 == <<"2","0","2","4","-","0","1","-","0","2">>
DNone == <<"n","o","t","-","a","-","d","a","t","e">>

ChartRows ==
  {[date |-> D1231, score |-> Num(5)],
   [date |-> D0101, score |-> Num(0)],
   [date |-> D0102, score |-> Num(1)], [date |-> D0102, score |-> Num(2)],
   [date |-> DNone, score |-> Num(1)]}

RowSeqs == UNION {[1..n -> ChartRows] : n \in 0..MaxRows}

\* one busy year: MaxRepeat rows of one day
LongRowSeqs == {[i \in 1..MaxRepeat |-> [date |-> D0102, score |-> Num(1)]]}

\* const parseDay = d3.timeParse('%Y-%m-%d'): the parser, its results for the dates
\* above kept in a table
ParsedDates == [s \in {D1231, D0101, D0102, DNone} |-> timeParse(s)]
parseDay(s) == IF s \in DOMAIN ParsedDates THEN ParsedDates[s] ELSE timeParse(s)

(***************************************************************************)
(* Aggregation: d3.rollup and the datasets built from it                   *)
(***************************************************************************)
\* Array.prototype.filter over a sequence of rows: those with the score n
RECURSIVE withScore(_, _)
withScore(values, n) ==
  IF values = <<>> THEN <<>>
  ELSE (IF Head(values).score = Num(n) THEN <<Head(values)>> ELSE <<>>)
         \o withScore(Tail(values), n)

\* the reducer of every rollup: three filters and their lengths
countsOf(values) ==
  [neutral  |-> Len(withScore(values, 0)),
   positive |-> Len(withScore(values, 1)),
   negative |-> Len(withScore(values, 2))]

\* the keys of an InternMap in insertion order: each key once, where it came first
RECURSIVE keysInOrder(_, _)
keysInOrder(ks, seen) ==
  IF ks = <<>> THEN <<>>
  ELSE IF Head(ks) \in seen THEN keysInOrder(Tail(ks), seen)
  ELSE <<Head(ks)>> \o keysInOrder(Tail(ks), seen \cup {Head(ks)})

\* the group of a key: the values with that key, in order
RECURSIVE groupOf(_, _, _)
groupOf(values, ks, k) ==
  IF values = <<>> THEN <<>>
  ELSE (IF Head(ks) = k THEN <<Head(values)>> ELSE <<>>)
         \o groupOf(Tail(values), Tail(ks), k)

\* d3.rollup(values, reduce, key) with ks[i] the key of values[i]: entries in
\* insertion order
rollup(values, ks) ==
  LET keys == keysInOrder(ks, {})
  IN  [i \in 1..Len(keys) |-> [key |-> keys[i], counts |-> countsOf(groupOf(values, ks, keys[i]))]]

\* Array.prototype.map(...).filter(Boolean): the parsed day of each row that has one
RECURSIVE parsedDays(_)
parsedDays(rows) ==
  IF rows = <<>> THEN <<>>
  ELSE (IF parseDay(Head(rows).date).ok THEN <<parseDay(Head(rows).date).day>> ELSE <<>>)
         \o parsedDays(Tail(rows))

RECURSIVE parsedRows(_)
parsedRows(rows) ==
  IF rows = <<>> THEN <<>>
  ELSE (IF parseDay(Head(rows).date).ok THEN <<Head(rows)>> ELSE <<>>)
         \o parsedRows(Tail(rows))

\* Array.prototype.sort((a, b) => a.t - b.t): stable, ascending by the field t
RECURSIVE insertByT(_, _)
insertByT(sorted, x) ==
  IF sorted = <<>> THEN <<x>>
  ELSE IF x.t < Head(sorted).t THEN <<x>> \o sorted
  ELSE <<Head(sorted)>> \o insertByT(Tail(sorted), x)

\* a variant of the sort that leaves the entries in insertion order
sortByTNone(xs) == xs

RECURSIVE sortByT(_)
sortByT(xs) ==
  IF xs = <<>> THEN <<>> ELSE insertByT(sortByT(SubSeq(xs, 1, Len(xs) - 1)), xs[Len(xs)])

\* SentimentStackedBar: yearRows, rollup by year, dataset sorted by the year's date
yearRows(rows) == parsedRows(rows)
yearKeys(rows) == [i \in 1..Len(parsedDays(rows)) |-> fmtYear(parsedDays(rows)[i])]

RECURSIVE validYears(_)
validYears(entries) ==
  IF entries = <<>> THEN <<>>
  ELSE (IF parseYear(Head(entries).key).ok
        THEN <<[t        |-> parseYear(Head(entries).key).day,
                key      |-> Head(entries).key,
                neutral  |-> Head(entries).counts.neutral,
                positive |-> Head(entries).counts.positive,
                negative |-> Head(entries).counts.negative]>>
        ELSE <<>>) \o validYears(Tail(entries))

stackedDataset(rows) == sortByT(validYears(rollup(yearRows(rows), yearKeys(rows))))

\* SentimentStream: rows with a parsed date, rollup by the Date (interned by its
\* time value), dataset sorted by the date
streamDataset(rows) ==
  LET roll == rollup(parsedRows(rows), parsedDays(rows))
  IN  sortByT([i \in 1..Len(roll) |->
                 [t        |-> roll[i].key,
                  key      |-> roll[i].key,
                  neutral  |-> roll[i].counts.neutral,
                  positive |-> roll[i].counts.positive,
                  negative |-> roll[i].counts.negative]])

(***************************************************************************)
(* d3.stack over the dataset: keys in the order given, order none, offset  *)
(* none                                                                    *)
(***************************************************************************)
stackKeys == <<"neutral", "positive", "negative">>

\* the value accessor: d[key]
valueOf(d, key) ==
  IF key = "neutral" THEN d.neutral ELSE IF key = "positive" THEN d.positive ELSE d.negative

\* a variant of the series that starts every segment at 0
RECURSIVE stackSeriesFlat(_, _)
stackSeriesFlat(ds, i) == [j \in 1..Len(ds) |-> <<0, valueOf(ds[j], stackKeys[i])>>]

\* series i: each point [y0, y1] starts as [0, value]; the offset then lifts it onto
\* the top of series i - 1
RECURSIVE stackSeries(_, _)
stackSeries(ds, i) ==
  IF i = 1 THEN [j \in 1..Len(ds) |-> <<0, valueOf(ds[j], stackKeys[1])>>]
  ELSE [j \in 1..Len(ds) |->
          <<stackSeries(ds, i - 1)[j][2],
            stackSeries(ds, i - 1)[j][2] + valueOf(ds[j], stackKeys[i])>>]

\* const series = stackGen(dataset)
stackGen(ds) == [i \in 1..Len(stackKeys) |-> stackSeries(ds, i)]

(***************************************************************************)
(* SentimentCalendar                                                       *)
(***************************************************************************)
\* counts: rollup of the rows by their date string
rowDates(rows) == [i \in 1..Len(rows) |-> rows[i].date]
calendarCounts(rows) == rollup(rows, rowDates(rows))

\* counts.get(key): the entry, or undefined
hasCounts(rows, key) == \E i \in 1..Len(rows) : rows[i].date = key
getCounts(rows, key) == countsOf(groupOf(rows, rowDates(rows), key))

\* Math.max
max3(a, b, c) == IF a >= b /\ a >= c THEN a ELSE IF b >= c THEN b ELSE c

\* a variant of typeOf that treats a missing entry as an entry of zero counts
typeOfZeroCounts(rows, key) ==
  LET c == getCounts(rows, key)
      max == max3(c.neutral, c.positive, c.negative)
  IN  IF max = c.positive THEN "positive"
      ELSE IF max = c.negative THEN "negative" ELSE "neutral"

\* the type of a day: 'neutral' without an entry, else the nested conditional
typeOf(rows, key) ==
  IF ~hasCounts(rows, key) THEN "neutral"
  ELSE LET c == getCounts(rows, key)
           max == max3(c.neutral, c.positive, c.negative)
       IN  IF max = c.positive THEN "positive"
           ELSE IF max = c.negative THEN "negative" ELSE "neutral"

\* years: the distinct years of the parsed dates, or the year of the clock
elements(xs) == {xs[i] : i \in 1..Len(xs)}
yearsOf(rows) ==
  IF \A i \in 1..Len(rows) : ~parseDay(rows[i].date).ok THEN {ThisYear}
  ELSE {getFullYear(d) : d \in elements(parsedDays(rows))}
least(ys) == CHOOSE y \in ys : \A z \in ys : y <= z
greatest(ys) == CHOOSE y \in ys : \A z \in ys : y >= z
minYear(rows) == CHOOSE y \in {least(ys) : ys \in {yearsOf(rows)}} : TRUE
maxYear(rows) == CHOOSE y \in {greatest(ys) : ys \in {yearsOf(rows)}} : TRUE

\* d3.timeDays(start, stop): the days from start up to, not including, stop
timeDays(start, stop) == [i \in 1..(IF stop > start THEN stop - start ELSE 0) |-> start + i - 1]

\* a variant of allDays that stops at December 31 instead of the day after it
allDaysNoOffset(year) == timeDays(newDate(year, 1, 1), newDate(year, 12, 31))

\* allDays: the days of the selected year
allDays(year) == timeDays(newDate(year, 1, 1), newDate(year, 12, 31) + 1)

\* dayType: a Map from the key of each day of allDays to its type
dayType(rows, year) ==
  [key \in {fmtDay(allDays(year)[i]) : i \in 1..Len(allDays(year))} |-> typeOf(rows, key)]

\* d3.extent of the parsed dates: the least and the greatest
minDay(rows) == least(elements(parsedDays(rows)))
maxDay(rows) == greatest(elements(parsedDays(rows)))
(***************************************************************************)
(* The y scale of the stacked bar: d3.scaleLinear().domain([0, yMax]).nice() *)
(***************************************************************************)
\* a variant of yMax that looks at the first bucket only
yMaxFirst(ds) == IF ds = <<>> THEN 0 ELSE ds[1].neutral + ds[1].positive + ds[1].negative

\* d3.max(dataset, d => d.neutral + d.positive + d.negative) ?? 0
yMax(ds) ==
  IF ds = <<>> THEN 0
  ELSE greatest({ds[j].neutral + ds[j].positive + ds[j].negative : j \in 1..Len(ds)})

RECURSIVE pow10(_)
pow10(p) == IF p = 0 THEN 1 ELSE 10 * pow10(p - 1)

\* Math.floor(Math.log10(stop / 10)) for stop >= 10
RECURSIVE powerOf(_, _)
powerOf(stop, p) == IF stop < pow10(p + 2) THEN p ELSE powerOf(stop, p + 1)

\* d3.tickIncrement(0, stop, 10) for an integer stop: the step 1, 2, 5 or 10 times a
\* power of ten, chosen by error >= sqrt(50), sqrt(10), sqrt(2) with
\* error = (stop / 10) / 10^power; 0 stands for the steps below 1 (stop < 10), which
\* are 1/k for an integer k and leave an integer domain as it is
tickIncrement(stop) ==
  IF stop < 10 THEN 0
  ELSE LET p == powerOf(stop, 0)
           sq == pow10(p + 1) * pow10(p + 1)
       IN  (IF stop * stop >= 50 * sq THEN 10
            ELSE IF stop * stop >= 10 * sq THEN 5
            ELSE IF stop * stop >= 2 * sq THEN 2 ELSE 1) * pow10(p)

\* Math.ceil(stop / step) * step
ceilTo(stop, step) == ((stop + step - 1) \div step) * step

\* scale.nice(): the loop of at most 10 rounds, until the step repeats; -1 is the
\* prestep before the first round
RECURSIVE niceLoop(_, _, _, _)
niceLoop(orig, stop, prestep, maxIter) ==
  IF maxIter = 0 THEN orig
  ELSE IF tickIncrement(stop) = prestep THEN stop
  ELSE IF tickIncrement(stop) > 0
       THEN niceLoop(orig, ceilTo(stop, tickIncrement(stop)), tickIncrement(stop), maxIter - 1)
       ELSE niceLoop(orig, stop, 0, maxIter - 1)

nice(stop) == niceLoop(stop, stop, -1, 10)

\* y.domain()
yDomain(ds) == <<0, nice(yMax(ds))>>

(***************************************************************************)
(* Sparkline: processed and what the render effect appends                 *)
(***************************************************************************)
\* data.map(d => ({date: parse(d.date), score: +d.score}))
\*     .filter(d => !!d.date && Number.isFinite(d.score))
RECURSIVE sparkMapped(_)
sparkMapped(rows) ==
  IF rows = <<>> THEN <<>>
  ELSE (IF parseDay(Head(rows).date).ok /\ isFinite(Head(rows).score)
        THEN <<[t |-> parseDay(Head(rows).date).day, score |-> Head(rows).score]>>
        ELSE <<>>) \o sparkMapped(Tail(rows))

\* a variant of byDay that keeps the first point of a day
byDayFirst(mapped) ==
  LET ks == [i \in 1..Len(mapped) |-> fmtDay(mapped[i].t)]
      keys == keysInOrder(ks, {})
  IN  [k \in 1..Len(keys) |-> mapped[least({i \in 1..Len(mapped) : ks[i] = keys[k]})]]

\* byDay.set(utcFormat(d.date), d) for each point, then byDay.values(): one value
\* per key, in the order the keys were first set, each the value set last
byDay(mapped) ==
  LET ks == [i \in 1..Len(mapped) |-> fmtDay(mapped[i].t)]
      keys == keysInOrder(ks, {})
  IN  [k \in 1..Len(keys) |-> mapped[greatest({i \in 1..Len(mapped) : ks[i] = keys[k]})]]

\* Array.from(byDay.values()).sort((a, b) => +a.date - +b.date)
processed(rows) == sortByT(byDay(sparkMapped(rows)))

\* innerW = Math.max(120, size.width || 200) - margin.left - margin.right;
\* innerH = height - margin.top - margin.bottom
innerW(w) == (IF (IF w = 0 THEN 200 ELSE w) > 120 THEN (IF w = 0 THEN 200 ELSE w) ELSE 120) - 42 - 2
innerH == 40 - 6 - 4

\* the elements the render effect appends to the cleared svg
sparkRender(rows, w) ==
  IF Len(processed(rows)) < 2 \/ innerW(w) <= 0 \/ innerH <= 0
  THEN <<"text">>
  ELSE <<"path", "circle", "text">>

\* the widths the resize observer reports: none yet, narrow, wide
SparkWidths == {0, 50, 300}

\* rows for the sparkline: two scores on one day, an earlier day, an unparseable
\* date, a score that is not a number
SparkRows ==
  {[date |-> D0102, score |-> Num(1)], [date |-> D0102, score |-> Num(2)],
   [date |-> D0101, score |-> Num(0)], [date |-> D0101, score |-> NaN],
   [date |-> DNone, score |-> Num(1)]}

SparkRowSeqs == UNION {[1..n -> SparkRows] : n \in 0..MaxRows}

(***************************************************************************)
(* SentimentDonut                                                          *)
(***************************************************************************)
\* d.score===1 ? 'positive' : d.score===2 ? 'negative' : 'neutral'
donutKey(score) ==
  IF score = Num(1) THEN "positive" ELSE IF score = Num(2) THEN "negative" ELSE "neutral"

\* a variant of the tally that, like the bar chart's reducer, counts score 0 as neutral
donutCountsStrict(rows) ==
  [neutral  |-> Len(withScore(rows, 0)),
   positive |-> Len(withScore(rows, 1)),
   negative |-> Len(withScore(rows, 2))]

\* data.forEach(d => counts[...]++)
donutCounts(rows) ==
  [neutral  |-> Cardinality({i \in 1..Len(rows) : donutKey(rows[i].score) = "neutral"}),
   positive |-> Cardinality({i \in 1..Len(rows) : donutKey(rows[i].score) = "positive"}),
   negative |-> Cardinality({i \in 1..Len(rows) : donutKey(rows[i].score) = "negative"})]

\* Math.round((counts.positive/total)*100) with total = data.length; 0/0 is NaN
donutPercent(rows) ==
  IF Len(rows) = 0 THEN NaN
  ELSE Num((200 * donutCounts(rows).positive + Len(rows)) \div (2 * Len(rows)))

(***************************************************************************)
(* NSSMain: what the main area renders, and the events of its controls     *)
(***************************************************************************)
Views == {"table", "chart"}
ChartTypes == {"stacked-y", "calendar", "donut"}

\* view === 'table' ? table : !data.length ? empty state : the chart of chartType
Rendered(v, c, rows) ==
  IF v = "table" THEN "table"
  ELSE IF rows = <<>> THEN "No data to display"
  ELSE c

\* SentimentCalendar is mounted when it is what NSSMain renders
calendarMounted(v, c, rows) == Rendered(v, c, rows) = "calendar"

\* mutant of yearAfter: the effect that resets the year is left out
yearAfterNoClamp(wasMounted, isMounted, year, rows) ==
  IF ~isMounted THEN 0
  ELSE IF ~wasMounted THEN maxYear(rows)
  ELSE year

\* YearPicker with order 'desc': the years from max(min, max) down to min(min, max)
yearOptions(min, max) ==
  LET start == IF min <= max THEN min ELSE max
      end == IF min <= max THEN max ELSE min
  IN  [i \in 1..(end - start + 1) |-> end - i + 1]

\* useState(maxYear) on mount; kept across renders; reset to maxYear by the effect
\* when it is out of [minYear, maxYear]; gone on unmount
yearAfter(wasMounted, isMounted, year, rows) ==
  IF ~isMounted THEN 0
  ELSE IF ~wasMounted THEN maxYear(rows)
  ELSE IF year < minYear(rows) \/ year > maxYear(rows) THEN maxYear(rows)
  ELSE year

headerVars ==
  <<exchange, ticker, loading, status, domVars, timers, t, loads, lastSettled, downloaded,
    csvFile, themeVars>>

\* the store hands new rows to NSSMain (setData of the header)
StoreData(rows) ==
  /\ page = "main"
  /\ rows # data
  /\ data' = rows
  /\ selectedYear' = yearAfter(calendarMounted(view, chartType, data),
                               calendarMounted(view, chartType, rows), selectedYear, rows)
  /\ UNCHANGED <<page, view, chartType, headerVars>>

\* the view radio group
SetView(v) ==
  /\ page = "main"
  /\ v # view
  /\ view' = v
  /\ selectedYear' = yearAfter(calendarMounted(view, chartType, data),
                               calendarMounted(v, chartType, data), selectedYear, data)
  /\ UNCHANGED <<page, data, chartType, headerVars>>

\* the chart type select, rendered in the chart view
SetChartType(c) ==
  /\ page = "main"
  /\ view = "chart"
  /\ c # chartType
  /\ chartType' = c
  /\ selectedYear' = yearAfter(calendarMounted(view, chartType, data),
                               calendarMounted(view, c, data), selectedYear, data)
  /\ UNCHANGED <<page, data, view, headerVars>>

\* the YearPicker select: one option per year from min to max
SetSelectedYear(y) ==
  /\ page = "main"
  /\ calendarMounted(view, chartType, data)
  /\ y \in elements(yearOptions(minYear(data), maxYear(data)))
  /\ y # selectedYear
  /\ selectedYear' = y
  /\ UNCHANGED <<page, data, view, chartType, headerVars>>

\* the years the rows above and the clock can put into the picker
PickerYears == {getFullYear(parseDay(D1231).day), getFullYear(parseDay(D0101).day), ThisYear}

InitCharts ==
  /\ page = "main"
  /\ exchange = NASDAQ /\ ticker = <<>> /\ data = <<>> /\ loading = FALSE /\ status = ""
  /\ tickerInp = <<>> /\ exchangeInp = <<>> /\ currentTicker = <<>> /\ currentData = <<>>
  /\ statusEl = "" /\ rowsEl = <<>> /\ dirty = FALSE
  /\ timers = <<>> /\ t = 0 /\ loads = <<>> /\ lastSettled = 0
  /\ view = "table" /\ chartType = "stacked-y" /\ selectedYear = 0
  /\ downloaded = <<>>
  /\ ThemeAtRest

NextCharts ==
  \/ \E rows \in RowSeqs \cup LongRowSeqs : StoreData(rows)
  \/ \E v \in Views : SetView(v)
  \/ \E c \in ChartTypes : SetChartType(c)
  \/ \E y \in PickerYears : SetSelectedYear(y)

SpecCharts == InitCharts /\ [][NextCharts]_vars

\* the sparkline's input: the rows handed to it
NextSpark == \E rows \in SparkRowSeqs : StoreData(rows)

SpecSpark == InitCharts /\ [][NextSpark]_vars

(***************************************************************************)
(* Downloads: the CSV export of the three page scripts                     *)
(***************************************************************************)
ExportHeader ==
  <<"D","a","t","e",",","S","e","n","t","i","m","e","n","t"," ","s","c","o","r","e">>

\* the decimal digits of a natural number
RECURSIVE natChars(_)
natChars(n) ==
  IF n < 10 THEN <<Digits[n + 1]>> ELSE natChars(n \div 10) \o <<Digits[(n % 10) + 1]>>

\* `${x}` of a number
numChars(x) ==
  IF ~isFinite(x) THEN <<"N","a","N">>
  ELSE IF x.value < 0 THEN <<"-">> \o natChars(0 - x.value) ELSE natChars(x.value)

\* `${x}` of a string or undefined
strChars(x) == IF x = undefined THEN <<"u","n","d","e","f","i","n","e","d">> ELSE x

\* data.map((r) => `${r.date},${r.score}`) for rows with number scores
numLines(rows) == [i \in 1..Len(rows) |-> rows[i].date \o <<",">> \o numChars(rows[i].score)]

\* currentData.map(r => `${r.date},${r.score}`) for rows of strings
strLines(rows) ==
  [i \in 1..Len(rows) |-> strChars(rows[i].date) \o <<",">> \o strChars(rows[i].score)]

\* a variant of the export that writes the rows latest first
reactCsvReversed(rows) ==
  join(<<ExportHeader>> \o [i \in 1..Len(rows) |-> numLines(rows)[Len(rows) + 1 - i]], <<"\n">>)

\* index.tsx: ['Date,Sentiment score', ...lines].join('\n')
reactCsv(rows) == join(<<ExportHeader>> \o numLines(rows), <<"\n">>)

\* webpack.config.js, script.js: `${header}\n${body}` with body = lines.join("\n")
vanillaCsv(rows) == ExportHeader \o <<"\n">> \o join(numLines(rows), <<"\n">>)
scriptCsv(rows) == ExportHeader \o <<"\n">> \o join(strLines(rows), <<"\n">>)

\* the rows the CSV page can hold: what loadTicker maps the objects of parseCSV to
CsvRows ==
  {[date |-> D0101, score |-> <<"0">>], [date |-> D0102, score |-> <<"1">>],
   [date |-> D0102, score |-> undefined], [date |-> <<"a", ",", "b">>, score |-> <<"2">>]}
CsvRowSeqs == UNION {[1..n -> CsvRows] : n \in 0..MaxRows}

ExportTicker == <<"i","b","m">>

exportVars == <<exchange, ticker, loading, tickerInp, exchangeInp, dirty, timers, t, loads,
                lastSettled, chartVars, csvFile, themeVars>>

\* handleExcelDownload of NSSHeader
handleExcelDownload ==
  /\ page = "react"
  /\ data # <<>>
  /\ downloaded' = reactCsv(data)
  /\ UNCHANGED <<page, data, status, currentTicker, currentData, statusEl, rowsEl, exportVars>>

\* the click listener of #download-excel, vanilla page
VanillaDownloadExcel ==
  /\ page = "vanilla"
  /\ currentData # <<>>
  /\ downloaded' = vanillaCsv(currentData)
  /\ UNCHANGED <<page, data, status, currentTicker, currentData, statusEl, rowsEl, exportVars>>

\* the click listener of #download-excel, CSV page
CsvDownloadExcel ==
  /\ page = "csv"
  /\ currentData # <<>>
  /\ downloaded' = scriptCsv(currentData)
  /\ UNCHANGED <<page, data, status, currentTicker, currentData, statusEl, rowsEl, exportVars>>

\* the CSV page loads the downloaded file, saved as the data file of its ticker:
\* loadTicker from res.text() on
CsvLoadExported ==
  /\ page = "csv"
  /\ downloaded # <<>>
  /\ currentTicker # <<>>
  /\ currentData' = csvData(downloaded)
  /\ rowsEl' = csvRenderRows(csvData(downloaded))
  /\ statusEl' = LoadedStatus(currentTicker, Len(csvData(downloaded)))
  /\ UNCHANGED <<page, data, status, currentTicker, downloaded, exportVars>>

\* a page that holds the rows of a ticker, nothing pending, nothing downloaded; the
\* calls that brought the rows are not recorded
InitExport ==
  /\ page \in {"react", "vanilla", "csv"}
  /\ exchange = NASDAQ /\ loading = FALSE
  /\ tickerInp = (IF page = "react" THEN <<>> ELSE ExportTicker)
  /\ exchangeInp = (IF page = "vanilla" THEN NASDAQ ELSE <<>>)
  /\ dirty = FALSE /\ timers = <<>> /\ t = 0
  /\ loads = <<>> /\ lastSettled = 0
  /\ view = "table" /\ chartType = "stacked-y" /\ selectedYear = 0
  /\ downloaded = <<>>
  /\ ThemeAtRest
  /\ ticker = (IF page = "react" THEN ExportTicker ELSE <<>>)
  /\ data \in (IF page = "react" THEN RowSeqs ELSE {<<>>})
  /\ status = (IF page = "react" THEN LoadedStatus(ExportTicker, Len(data)) ELSE "")
  /\ currentTicker = (IF page = "react" THEN <<>> ELSE toUpperCase(ExportTicker))
  /\ currentData \in (IF page = "vanilla" THEN RowSeqs
                      ELSE IF page = "csv" THEN CsvRowSeqs ELSE {<<>>})
  /\ rowsEl = (IF page = "vanilla" THEN renderRows(currentData)
               ELSE IF page = "csv" THEN csvRenderRows(currentData) ELSE <<>>)
  /\ statusEl = (IF page = "react" THEN "" ELSE LoadedStatus(ExportTicker, Len(currentData)))

NextExport ==
  \/ handleExcelDownload
  \/ VanillaDownloadExcel
  \/ CsvDownloadExcel
  \/ CsvLoadExported

SpecExport == InitExport /\ [][NextExport]_vars

(***************************************************************************)
(* The CSV page served a drawn data file: the header "date,sentiment" and  *)
(* one line over a small alphabet                                          *)
(***************************************************************************)
CsvAlphabet == {"a", ",", "\""}
\* the line  ",","a""a"
QuotedLine == <<"\"", ",", "\"", ",", "\"", "a", "\"", "\"", "a", "\"">>
CsvLines == UNION {[1..n -> CsvAlphabet] : n \in 0..MaxLine} \cup {QuotedLine}
FileHeader == <<"d","a","t","e",",","s","e","n","t","i","m","e","n","t">>
CsvFiles == {FileHeader \o <<"\n">> \o l : l \in CsvLines}

\* the page after loadTicker("ibm") got its response and awaits res.text()
InitCsvFile ==
  /\ page = "csv"
  /\ csvFile \in CsvFiles
  /\ exchange = NASDAQ /\ ticker = <<>> /\ data = <<>> /\ loading = FALSE /\ status = ""
  /\ tickerInp = ExportTicker /\ exchangeInp = <<>>
  /\ currentTicker = <<>> /\ currentData = <<>>
  /\ statusEl = LoadingStatus(ExportTicker) /\ rowsEl = <<>> /\ dirty = FALSE
  /\ timers = <<>> /\ t = 0
  /\ loads = <<[NewLoad(ExportTicker) EXCEPT !.pc = "text"]>> /\ lastSettled = 0
  /\ view = "table" /\ chartType = "stacked-y" /\ selectedYear = 0
  /\ downloaded = <<>>
  /\ rootDark = FALSE /\ ariaPressed = "" /\ storedTheme = "light"
  /\ storageOk = TRUE /\ prefersDark = FALSE /\ booted = TRUE

NextCsvFile ==
  \/ \E i \in 1..MaxLoads : CsvLoaded(i)
  \/ \E i \in 1..MaxLoads : CsvFailed(i)

SpecCsvFile == InitCsvFile /\ [][NextCsvFile]_vars

(***************************************************************************)
(* Theme: the 'dark' class of the root element, aria-pressed of the toggle *)
(* button and the 'theme' item of localStorage                             *)
(***************************************************************************)
\* localStorage.getItem('theme') when no item is stored
NoItem == "null"

\* what the storage can hold when a page starts: nothing, a value a page wrote,
\* a value no page writes
StoredValues == {NoItem, "dark", "light", "blue"}

\* !theme
falsy(theme) == theme = NoItem \/ theme = ""

\* the three places the theme lives in
themeNow == [rootDark |-> rootDark, ariaPressed |-> ariaPressed, storedTheme |-> storedTheme]

\* String(isDark)
boolString(b) == IF b THEN "true" ELSE "false"

\* a variant of applyTheme that writes nothing to the storage
applyThemeNoStore(th, theme, ok) ==
  [rootDark    |-> theme = "dark",
   ariaPressed |-> boolString(theme = "dark"),
   storedTheme |-> th.storedTheme]

\* applyTheme(theme): toggle the class, set aria-pressed, try setItem (ok: it does
\* not throw)
applyTheme(th, theme, ok) ==
  [rootDark    |-> theme = "dark",
   ariaPressed |-> boolString(theme = "dark"),
   storedTheme |-> IF ok THEN theme ELSE th.storedTheme]

\* the click listener of registerToggle
toggleClicked(th, ok) == applyTheme(th, IF th.rootDark THEN "light" ELSE "dark", ok)

\* handleThemeToggle: classList.toggle('dark'), then setItem, which may throw
reactToggled(th, ok) ==
  [rootDark    |-> ~th.rootDark,
   ariaPressed |-> th.ariaPressed,
   storedTheme |-> IF ok THEN (IF ~th.rootDark THEN "dark" ELSE "light") ELSE th.storedTheme]

\* one click on the toggle button of page pg
clicked(pg, th, ok) == IF pg = "react" THEN reactToggled(th, ok) ELSE toggleClicked(th, ok)

restVars ==
  <<page, reactVars, domVars, timers, t, loads, lastSettled, chartVars, downloaded, csvFile,
    storageOk, prefersDark>>

SetTheme(th) ==
  /\ rootDark' = th.rootDark
  /\ ariaPressed' = th.ariaPressed
  /\ storedTheme' = th.storedTheme

\* Boot of the page script: initTheme(); registerToggle()
initTheme ==
  /\ page = "vanilla"
  /\ ~booted
  /\ SetTheme(applyTheme(themeNow,
                         IF falsy(storedTheme)
                         THEN (IF prefersDark THEN "dark" ELSE "light")
                         ELSE storedTheme,
                         storageOk))
  /\ booted' = TRUE
  /\ UNCHANGED restVars

\* a click on #toggle-theme-btn
ToggleClick ==
  /\ page = "vanilla"
  /\ booted
  /\ SetTheme(toggleClicked(themeNow, storageOk))
  /\ UNCHANGED <<booted, restVars>>

\* NSSHeader's mount effect: the class follows a stored theme, if there is one
ReactInitTheme ==
  /\ page = "react"
  /\ ~booted
  /\ rootDark' = (IF falsy(storedTheme) THEN rootDark ELSE storedTheme = "dark")
  /\ booted' = TRUE
  /\ UNCHANGED <<ariaPressed, storedTheme, restVars>>

\* a click on the header's toggle button
handleThemeToggle ==
  /\ page = "react"
  /\ booted
  /\ SetTheme(reactToggled(themeNow, storageOk))
  /\ UNCHANGED <<booted, restVars>>

\* Boot of the CSV page script: toggleTheme() when the system prefers dark and the
\* root has no 'dark' class
CsvInitTheme ==
  /\ page = "csv"
  /\ ~booted
  /\ rootDark' = (IF prefersDark /\ ~rootDark THEN ~rootDark ELSE rootDark)
  /\ booted' = TRUE
  /\ UNCHANGED <<ariaPressed, storedTheme, restVars>>

\* a click on #toggle-theme-btn of the CSV page: toggleTheme()
toggleTheme ==
  /\ page = "csv"
  /\ booted
  /\ rootDark' = ~rootDark
  /\ UNCHANGED <<ariaPressed, storedTheme, booted, restVars>>

InitThemes ==
  /\ page \in {"react", "vanilla", "csv"}
  /\ exchange = NASDAQ /\ ticker = <<>> /\ data = <<>> /\ loading = FALSE /\ status = ""
  /\ tickerInp = <<>> /\ exchangeInp = <<>> /\ currentTicker = <<>> /\ currentData = <<>>
  /\ statusEl = "" /\ rowsEl = <<>> /\ dirty = FALSE
  /\ timers = <<>> /\ t = 0 /\ loads = <<>> /\ lastSettled = 0
  /\ view = "table" /\ chartType = "stacked-y" /\ selectedYear = 0
  /\ downloaded = <<>> /\ csvFile = <<>>
  /\ rootDark = FALSE /\ ariaPressed = ""
  /\ storedTheme \in StoredValues
  /\ storageOk \in BOOLEAN
  /\ prefersDark \in BOOLEAN
  /\ booted = FALSE

NextTheme ==
  \/ initTheme
  \/ ToggleClick
  \/ ReactInitTheme
  \/ handleThemeToggle
  \/ CsvInitTheme
  \/ toggleTheme

SpecTheme == InitThemes /\ [][NextTheme]_vars

(***************************************************************************)
(* What the pages hold, and what a loadTicker call writes when it ends     *)
(***************************************************************************)
\* the rows and the status text of the running page
(***************************************************************************)
(* The React page alone, with the scheduling the runtime gives: a pending  *)
(* timer's delay elapses, a due timer's callback runs, and every fetch      *)
(* issued settles (resolves or rejects).                                    *)
(***************************************************************************)
InitReact == Init /\ page = "react"

NextReact ==
  \/ \E v \in Tickers : SetTicker(v)
  \/ \E e \in Exchanges : SetExchange(e)
  \/ ReactLoadTicker
  \/ \E i \in 1..MaxLoads : ReactFailed(i)
  \/ \E i \in 1..MaxLoads : ReactLoaded(i)
  \/ \E i \in 1..MaxLoads : FetchOk(i)
  \/ Elapse

SpecLive ==
  /\ InitReact
  /\ [][NextReact]_vars
  /\ WF_vars(Elapse)
  /\ WF_vars(ReactLoadTicker)
  /\ \A i \in 1..MaxLoads : WF_vars(ReactFailed(i) \/ FetchOk(i) \/ ReactLoaded(i))


Rows == IF page = "react" THEN data ELSE currentData
StatusText == IF page = "react" THEN status ELSE statusEl

\* the rows a call with record l wrote when it ended
RowsProduced(l) ==
  IF l.res # "ok" THEN <<>>
  ELSE IF page = "react" THEN reactParse(PipeBody(l.ticker))
  ELSE IF page = "vanilla" THEN parsePipeText(PipeBody(l.ticker))
  ELSE csvData(CsvBody(l.ticker))

\* the status a call with record l wrote last
StatusProduced(l) ==
  IF l.res = "ok" THEN LoadedStatus(l.ticker, Len(RowsProduced(l)))
  ELSE IF l.res = "failed" THEN NoDataStatus(l.ticker)
  ELSE IF l.res = "missing" THEN (IF page = "csv" THEN EnterPrompt ELSE SelectPrompt)
  ELSE LoadingStatus(l.ticker)

\* every issued fetch has settled; no debounce timer is pending
AllSettled == \A i \in 1..Len(loads) : loads[i].pc = "done"
NoTimer == timers = <<>>

(***************************************************************************)
(* C1: when every issued fetch has settled and no debounce timer is        *)
(* pending, the rows and the status are those of the most recent call,     *)
(* whatever the order in which the responses arrived.                      *)
(***************************************************************************)
C1_LastWriteWins ==
  (page \in {"react", "vanilla"} /\ AllSettled /\ NoTimer /\ loads # <<>>)
    => /\ Rows = RowsProduced(loads[Len(loads)])
       /\ StatusText = StatusProduced(loads[Len(loads)])

\* C1 as amended: they are those of the call that settled last, which is the most
\* recent call only when no older response arrived after it.
C1_LastSettledWins ==
  (page \in {"react", "vanilla"} /\ AllSettled /\ NoTimer /\ loads # <<>>)
    => /\ lastSettled \in 1..Len(loads)
       /\ Rows = RowsProduced(loads[lastSettled])
       /\ StatusText = StatusProduced(loads[lastSettled])
       /\ (lastSettled = Len(loads) =>
             /\ Rows = RowsProduced(loads[Len(loads)])
             /\ StatusText = StatusProduced(loads[Len(loads)]))

\* two fetches settled, the most recent one last, and it replaced other rows
C1_Witness ==
  /\ page \in {"react", "vanilla"} /\ AllSettled /\ NoTimer
  /\ Len(loads) >= 2 /\ lastSettled = Len(loads)
  /\ loads[Len(loads)].res = "ok" /\ loads[1].res = "ok"
  /\ Rows # <<>> /\ RowsProduced(loads[1]) # Rows

(***************************************************************************)
(* C2: no in-flight request is ever cancelled: a suspended call stays      *)
(* until it settles, and the step in which it settles writes that call's   *)
(* rows and status into the store, whatever was issued after it.           *)
(***************************************************************************)
Settles(i) == loads[i].pc # "done" /\ loads'[i].pc = "done"

C2_EverySettleApplies ==
  [][\A i \in 1..Len(loads) :
       /\ i <= Len(loads')
       /\ loads'[i].ticker = loads[i].ticker
       /\ loads[i].pc = "done" => loads'[i] = loads[i]
       /\ Settles(i) => /\ Rows' = RowsProduced(loads'[i])
                        /\ StatusText' = StatusProduced(loads'[i])
                        /\ lastSettled' = i]_vars

\* the response to an older request settled after that of a newer request and its
\* rows and status replaced the newer ones
C2_Witness ==
  /\ page \in {"react", "vanilla"}
  /\ \E i \in 1..Len(loads) : \E j \in (i + 1)..Len(loads) :
       /\ lastSettled = i
       /\ loads[i].res \in {"ok", "failed"} /\ loads[j].res \in {"ok", "failed"}
       /\ StatusText = StatusProduced(loads[i])
       /\ StatusText # StatusProduced(loads[j])
       /\ Rows = RowsProduced(loads[i])
       /\ Rows # RowsProduced(loads[j])

(***************************************************************************)
(* C3: debouncing coalesces a burst of changes into one load: at most one  *)
(* timer is pending; every change leaves one timer whose delay has not     *)
(* elapsed and starts no load itself; a fetch is issued only by the timer  *)
(* whose delay has elapsed since the last change, one per timer, with the  *)
(* last values; a timer that runs calls loadTicker (a blank ticker aside). *)
(***************************************************************************)
LoadStarted == Len(loads') > Len(loads)
FetchIssued == LoadStarted /\ loads'[Len(loads')].pc = "fetch"
SelectionChanged == <<ticker, exchange, tickerInp, exchangeInp>>'
                      # <<ticker, exchange, tickerInp, exchangeInp>>
LastTicker == IF page = "react" THEN ticker ELSE trim(tickerInp)

C3_ChangeStep ==
  SelectionChanged => Len(timers') = 1 /\ ~timers'[1].due /\ ~LoadStarted

C3_TimerStep ==
  /\ FetchIssued => /\ timers # <<>> /\ Head(timers).due /\ timers' = Tail(timers)
                    /\ Len(loads') = Len(loads) + 1
                    /\ loads'[Len(loads')].ticker = LastTicker
  /\ Len(timers') < Len(timers) => LoadStarted \/ trim(LastTicker) = <<>>

C3_Debounce == [](Len(timers) <= 1) /\ [][C3_ChangeStep /\ C3_TimerStep]_vars

(***************************************************************************)
(* C4: a load enters Loading (fetch issued, status "Loading X...", loading *)
(* flag set) only when ticker and exchange are non-empty after trimming;   *)
(* otherwise no fetch is issued, the rows are cleared and the status       *)
(* prompts for a selection.                                                *)
(***************************************************************************)
LastExchange == IF page = "react" THEN exchange ELSE exchangeInp

C4_LoadingOnlyForSelection ==
  [][(page \in {"react", "vanilla"} /\ LoadStarted) =>
       IF trim(LastTicker) = <<>> \/ trim(LastExchange) = <<>>
       THEN /\ loads'[Len(loads')].res = "missing"
            /\ Rows' = <<>>
            /\ StatusText' = SelectPrompt
       ELSE /\ loads'[Len(loads')].pc = "fetch"
            /\ StatusText' = LoadingStatus(LastTicker)
            /\ page = "react" => loading']_vars

(***************************************************************************)
(* C5: every transport failure of a fetch (non-2xx, network exception)     *)
(* ends with the rows cleared and the status "No data found for X." for    *)
(* the ticker X of that fetch; the failed call ends like any other.        *)
(***************************************************************************)
C5_FailureClears ==
  [][\A i \in 1..Len(loads) :
       (Settles(i) /\ loads'[i].res = "failed") =>
         /\ Rows' = <<>>
         /\ StatusText' = NoDataStatus(loads[i].ticker)
         /\ page = "react" => ~loading'
         /\ page # "react" => currentTicker' = <<>> /\ rowsEl' = <<>>]_vars

\* a failed fetch settled last and cleared the rows an earlier fetch had loaded
C5_Witness ==
  /\ page = "react"
  /\ lastSettled \in 1..Len(loads) /\ loads[lastSettled].res = "failed"
  /\ \E j \in 1..Len(loads) : loads[j].res = "ok" /\ RowsProduced(loads[j]) # <<>>
  /\ Rows = <<>>
  /\ StatusText = NoDataStatus(loads[lastSettled].ticker)

(***************************************************************************)
(* C6: a successful fetch replaces the rows wholesale: right after it is   *)
(* applied the rows are exactly the rows parsed from that response, in     *)
(* order, none of an earlier load among them.                              *)
(***************************************************************************)
C6_ReplacedWholesale ==
  [][\A i \in 1..Len(loads) :
       (Settles(i) /\ loads'[i].res = "ok") =>
         /\ Len(Rows') = Len(RowsProduced(loads'[i]))
         /\ \A k \in 1..Len(Rows') : Rows'[k] = RowsProduced(loads'[i])[k]]_vars

\* a second successful fetch replaced the non-empty rows of the first with its own
C6_Witness ==
  /\ page = "react" /\ Len(loads) >= 2 /\ lastSettled = 2
  /\ loads[1].res = "ok" /\ loads[2].res = "ok"
  /\ RowsProduced(loads[1]) # <<>> /\ data # <<>>
  /\ data = RowsProduced(loads[2])
  /\ \A k \in 1..Len(data) : \A m \in 1..Len(RowsProduced(loads[1])) :
       data[k] # RowsProduced(loads[1])[m]

(***************************************************************************)
(* C7: every stored row has a parseable YYYY-MM-DD date and a score in     *)
(* {0,1,2}.                                                                *)
(***************************************************************************)
IsDigit(c) == IndexOf(Digits, c) > 0
IsYMD(s) ==
  /\ Len(s) = 10
  /\ s[5] = "-" /\ s[8] = "-"
  /\ \A k \in {1, 2, 3, 4, 6, 7, 9, 10} : IsDigit(s[k])
  /\ digitsValue(SubSeq(s, 6, 7), 0) \in 1..12
  /\ digitsValue(SubSeq(s, 9, 10), 0) \in 1..31

C7_RowsValid ==
  page \in {"react", "vanilla"} =>
    \A k \in 1..Len(Rows) :
      /\ IsYMD(Rows[k].date)
      /\ isFinite(Rows[k].score)
      /\ Rows[k].score.value \in {0, 1, 2}

(***************************************************************************)
(* C8: while at least one issued fetch has not settled, the loading flag   *)
(* of the store is true (stated for fetches of non-blank tickers, the      *)
(* ones the claim lets start).                                             *)
(***************************************************************************)
C8_LoadingWhilePending ==
  (/\ page = "react"
   /\ \A i \in 1..Len(loads) : trim(loads[i].ticker) # <<>>
   /\ \E i \in 1..Len(loads) : loads[i].pc # "done") => loading

(***************************************************************************)
(* C9: the status changes together with each transition of a load          *)
(* ("Loading X...", then "X loaded: N rows." or "No data found for X.")    *)
(* and agrees with the rows: "X loaded: N rows." with exactly N rows,      *)
(* "No data found for X." and the prompts with none.                       *)
(***************************************************************************)
C9_Agrees ==
  /\ \A i \in 1..Len(loads) : \A n \in 0..(Len(Rows) + 1) :
       StatusText = LoadedStatus(loads[i].ticker, n) => Len(Rows) = n
  /\ \A i \in 1..Len(loads) : StatusText = NoDataStatus(loads[i].ticker) => Rows = <<>>
  /\ StatusText \in {SelectPrompt, EnterPrompt} => Rows = <<>>
  /\ \/ StatusText \in {"", SelectPrompt, EnterPrompt}
     \/ \E i \in 1..Len(loads) :
          StatusText \in {LoadingStatus(loads[i].ticker), NoDataStatus(loads[i].ticker),
                          LoadedStatus(loads[i].ticker, Len(Rows))}

C9_Step ==
  /\ LoadStarted /\ loads'[Len(loads')].pc = "fetch"
       => StatusText' = LoadingStatus(loads'[Len(loads')].ticker)
  /\ \A i \in 1..Len(loads) :
       Settles(i) => StatusText' \in {LoadedStatus(loads[i].ticker, Len(Rows')),
                                      NoDataStatus(loads[i].ticker)}
  /\ StatusText' # StatusText => LoadStarted \/ \E i \in 1..Len(loads) : Settles(i)
  /\ Rows' # Rows => StatusText' # StatusText \/ \E i \in 1..Len(loads) : Settles(i)

C9_StatusAgreesWithRows == []C9_Agrees /\ [][C9_Step]_vars

\* a status "X loaded: N rows." with N > 0 rows held
C9_Witness ==
  /\ page = "react" /\ Rows # <<>>
  /\ \E i \in 1..Len(loads) : StatusText = LoadedStatus(loads[i].ticker, Len(Rows))

(***************************************************************************)
(* C10: every error state is recoverable and input is always accepted.     *)
(* In every state of the React page a change of the ticker and a change of *)
(* the exchange are enabled.  From a state whose status is the prompt or   *)
(* "No data found for X." and in which a new selection with non-empty      *)
(* ticker and exchange waits on its debounce timer, the page comes to the   *)
(* Loaded state holding the rows of that selection's response, unless the  *)
(* selection is changed again before the call starts or the fetch fails.   *)
(***************************************************************************)
C10_ErrorState ==
  \/ status = SelectPrompt
  \/ \E i \in 1..Len(loads) : status = NoDataStatus(loads[i].ticker)

C10_NewSelection(n, tk, ex) ==
  /\ C10_ErrorState
  /\ Len(loads) = n
  /\ ticker = tk /\ exchange = ex
  /\ Len(timers) = 1 /\ timers[1].ticker = tk /\ timers[1].exchange = ex

C10_Loaded(n, tk) ==
  /\ Len(loads) > n
  /\ loads[n + 1].ticker = tk /\ loads[n + 1].res = "ok"
  /\ lastSettled = n + 1
  /\ data = reactParse(PipeBody(tk))
  /\ status = LoadedStatus(tk, Len(data))

C10_Withdrawn(n, tk, ex) ==
  \/ Len(loads) = n /\ (ticker # tk \/ exchange # ex)
  \/ Len(loads) > n /\ loads[n + 1].res = "failed"

C10_Recoverable ==
  /\ [](page = "react" => /\ ENABLED (\E v \in Tickers : SetTicker(v))
                          /\ ENABLED (\E e \in Exchanges : SetExchange(e)))
  /\ \A n \in 0..(MaxLoads - 1) : \A tk \in Tickers \ {<<>>} : \A ex \in Exchanges :
       C10_NewSelection(n, tk, ex) ~> (C10_Loaded(n, tk) \/ C10_Withdrawn(n, tk, ex))

\* a call that failed or found the selection missing, and the next call loaded rows
C10_Witness ==
  /\ page = "react"
  /\ \E n \in 1..(Len(loads) - 1) :
       /\ loads[n].res \in {"failed", "missing"}
       /\ C10_Loaded(n, loads[n + 1].ticker)
       /\ data # <<>>

(***************************************************************************)
(* C11: no timeout is enforced.  In the Loading state of the latest load   *)
(* (its fetch pending, loading true, status "Loading X...", no timer       *)
(* pending), every step that neither settles that fetch nor changes the    *)
(* selection leaves the store in that Loading state.                       *)
(***************************************************************************)
C11_Loading ==
  /\ page = "react" /\ loads # <<>> /\ NoTimer
  /\ loads[Len(loads)].pc # "done"
  /\ loading /\ status = LoadingStatus(loads[Len(loads)].ticker)

C11_StaysLoading ==
  [][(C11_Loading /\ ~SelectionChanged /\ ~Settles(Len(loads)))
       => C11_Loading' /\ Len(loads') = Len(loads) /\ data' = data]_vars

\* C11 as amended: every step that settles no fetch at all, neither the latest nor an
\* older one still pending, and does not change the selection; the response of an
\* older fetch that settles does end the Loading state.
C11_StaysLoadingUntilSettle ==
  [][/\ (C11_Loading /\ ~SelectionChanged /\ \A i \in 1..Len(loads) : ~Settles(i))
          => C11_Loading' /\ Len(loads') = Len(loads) /\ data' = data
     /\ (C11_Loading /\ \E i \in 1..(Len(loads) - 1) : Settles(i))
          => ~C11_Loading']_vars

\* the latest fetch has gone on to read its body and is still awaited, after an
\* earlier load ended
C11_Witness ==
  /\ C11_Loading
  /\ Len(loads) = 2 /\ loads[1].pc = "done" /\ loads[2].pc = "text"

(***************************************************************************)
(* C12: in every bucket the aggregation produces, neutral + positive +     *)
(* negative is the number of rows with a parseable date that map to the    *)
(* bucket's key: the year buckets of the stacked bar chart, the day        *)
(* buckets of the calendar.                                                *)
(***************************************************************************)
total(b) == b.neutral + b.positive + b.negative

rowsOfYear(rows, key) ==
  {i \in 1..Len(rows) : parseDay(rows[i].date).ok /\ fmtYear(parseDay(rows[i].date).day) = key}

rowsOfDate(rows, key) == {i \in 1..Len(rows) : rows[i].date = key}

C12_BucketTotals ==
  /\ Rendered(view, chartType, data) = "stacked-y" =>
       \A k \in 1..Len(stackedDataset(data)) :
         total(stackedDataset(data)[k])
           = Cardinality(rowsOfYear(data, stackedDataset(data)[k].key))
  /\ Rendered(view, chartType, data) = "calendar" =>
       \A k \in 1..Len(calendarCounts(data)) :
         parseDay(calendarCounts(data)[k].key).ok =>
           total(calendarCounts(data)[k].counts)
             = Cardinality(rowsOfDate(data, calendarCounts(data)[k].key))

(***************************************************************************)
(* C13: the type of a day that has rows is the category whose count is     *)
(* strictly larger than both others, and Neutral on every tie for the      *)
(* largest count (two-way, three-way, all zero).  Stated for rows whose    *)
(* scores are all 0, 1 or 2.                                               *)
(***************************************************************************)
scoresInRange(rows) == \A i \in 1..Len(rows) : rows[i].score \in {Num(0), Num(1), Num(2)}

strictMajority(c) ==
  IF c.positive > c.neutral /\ c.positive > c.negative THEN "positive"
  ELSE IF c.negative > c.neutral /\ c.negative > c.positive THEN "negative"
  ELSE "neutral"

C13_TieIsNeutral ==
  calendarMounted(view, chartType, data) /\ scoresInRange(data) =>
    \A key \in DOMAIN dayType(data, selectedYear) :
      hasCounts(data, key) =>
        dayType(data, selectedYear)[key] = strictMajority(getCounts(data, key))

(***************************************************************************)
(* C14: for rows whose parseable dates span D_min..D_max, the day map of   *)
(* the calendar has an entry for every calendar day of [D_min, D_max],     *)
(* also when the range covers more than one calendar year.                 *)
(***************************************************************************)
dayKeys(rows, year) == DOMAIN dayType(rows, year)
daysOfYear(year) == daysFromCivil(year, 1, 1)..(daysFromCivil(year + 1, 1, 1) - 1)

C15_EmptyDaysNeutral ==
  calendarMounted(view, chartType, data) =>
    \A types \in {dayType(data, selectedYear)} :
      \A z \in daysOfYear(selectedYear) :
        ~hasCounts(data, fmtDay(z)) =>
          fmtDay(z) \in DOMAIN types /\ types[fmtDay(z)] = "neutral"

\* the calendar shows a year with a day that has rows and a day that has none
C15_Witness ==
  /\ calendarMounted(view, chartType, data)
  /\ hasCounts(data, D0102) /\ ~hasCounts(data, D0101)
  /\ selectedYear = 2024
  /\ dayType(data, selectedYear)[D0101] = "neutral"

(***************************************************************************)
(* C16: whenever the aggregated bucket map is empty the chart area shows   *)
(* "No data to display" and no chart renderer runs: a chart is never       *)
(* rendered from zero buckets.                                             *)
(***************************************************************************)
C16_NoChartFromZeroBuckets ==
  view = "chart" =>
    /\ chartType = "stacked-y" /\ stackedDataset(data) = <<>> =>
         Rendered(view, chartType, data) = "No data to display"
    /\ chartType = "calendar" /\ calendarCounts(data) = <<>> =>
         Rendered(view, chartType, data) = "No data to display"

(***************************************************************************)
(* C17: the rows a pipe-text response is parsed into are exactly its lines *)
(* that hold a valid date|score pair, in source order: blank and           *)
(* unparseable lines are skipped and no valid line is dropped, so the      *)
(* number of stored rows is the number of valid lines.                     *)
(***************************************************************************)
validLine(ln) ==
  /\ Len(split(ln, "|")) = 2
  /\ IsYMD(trim(split(ln, "|")[1]))
  /\ trim(split(ln, "|")[2]) \in {<<"0">>, <<"1">>, <<"2">>}

RECURSIVE validRows(_)
validRows(lines) ==
  IF lines = <<>> THEN <<>>
  ELSE (IF validLine(Head(lines)) THEN <<pipeRow(Head(lines))>> ELSE <<>>)
         \o validRows(Tail(lines))

C17_ExactlyValidLines ==
  page \in {"react", "vanilla"} =>
    \A i \in 1..Len(loads) :
      loads[i].res = "ok" =>
        /\ RowsProduced(loads[i]) = validRows(splitLines(PipeBody(loads[i].ticker)))
        /\ StatusProduced(loads[i])
             = LoadedStatus(loads[i].ticker,
                            Len(validRows(splitLines(PipeBody(loads[i].ticker)))))

(***************************************************************************)
(* C18: round trip.  Exporting the rows of the CSV page and parsing the    *)
(* exported text with parseCSV and the date/sentiment column mapping       *)
(* yields the original {date, score} pairs in the same order: loading the  *)
(* file just downloaded leaves the rows as they were.  Stated for rows     *)
(* with a YYYY-MM-DD date and a score 0, 1 or 2.                           *)
(***************************************************************************)
wellFormed(rows) ==
  \A i \in 1..Len(rows) :
    IsYMD(rows[i].date) /\ rows[i].score \in {<<"0">>, <<"1">>, <<"2">>}

C18_LoadsExport ==
  /\ page = "csv"
  /\ currentData # <<>>
  /\ wellFormed(currentData)
  /\ downloaded = scriptCsv(currentData)
  /\ downloaded' = downloaded

C18_RoundTrip == [][C18_LoadsExport => currentData' = currentData]_vars

(***************************************************************************)
(* C19: the CSV export is the header line "Date,Sentiment score" followed  *)
(* by exactly one "date,score" line per stored row, in the order of the    *)
(* rows in memory.                                                         *)
(***************************************************************************)
exportedLines == split(downloaded, "\n")

C19_HeaderThenRows ==
  page \in {"react", "vanilla"} /\ downloaded # <<>> =>
    /\ Len(exportedLines) = 1 + Len(Rows)
    /\ Str(exportedLines[1]) = "Date,Sentiment score"
    /\ \A i \in 1..Len(Rows) :
         /\ Len(split(exportedLines[i + 1], ",")) = 2
         /\ split(exportedLines[i + 1], ",")[1] = Rows[i].date
         /\ Str(split(exportedLines[i + 1], ",")[2]) = numberToString(Rows[i].score)

\* a download of three rows, the first and the last of which differ
C19_Witness ==
  /\ page \in {"react", "vanilla"}
  /\ downloaded # <<>>
  /\ Len(Rows) = 3
  /\ Rows[1] # Rows[3]
  /\ Len(exportedLines) = 4

(***************************************************************************)
(* C20: the bucket sequence handed to the stack builder has exactly one    *)
(* entry per distinct bucket key and is strictly ascending by the date of  *)
(* the key, whatever the order of the rows.                                *)
(***************************************************************************)
strictlyAscending(ds) == \A k \in 1..(Len(ds) - 1) : ds[k].t < ds[k + 1].t
yearKeySet(rows) ==
  {fmtYear(parseDay(rows[i].date).day) : i \in {j \in 1..Len(rows) : parseDay(rows[j].date).ok}}
dayKeySet(rows) ==
  {parseDay(rows[i].date).day : i \in {j \in 1..Len(rows) : parseDay(rows[j].date).ok}}
onePerKey(ds, keys) ==
  /\ Len(ds) = Cardinality(keys)
  /\ {ds[k].key : k \in 1..Len(ds)} = keys

C20_OnePerKeyAscending ==
  /\ Rendered(view, chartType, data) = "stacked-y" =>
       \A ds \in {stackedDataset(data)} :
         strictlyAscending(ds) /\ onePerKey(ds, yearKeySet(data))
  /\ view = "chart" /\ data # <<>> =>
       \A ds \in {streamDataset(data)} :
         strictlyAscending(ds) /\ onePerKey(ds, dayKeySet(data))

\* rows out of chronological order, two of them of the same year
C20_Witness ==
  /\ Rendered(view, chartType, data) = "stacked-y"
  /\ Len(data) = 3
  /\ data[1].date = D0102 /\ data[2].date = D1231 /\ data[3].date = D0101
  /\ Len(stackedDataset(data)) = 2
  /\ Len(streamDataset(data)) = 3
  /\ stackedDataset(data)[1].key = <<"2","0","2","3">>

(***************************************************************************)
(* C21: zero-baseline stacking in the order neutral, positive, negative:   *)
(* for every bucket the neutral segment is [0, n], the positive segment    *)
(* [n, n+p] and the negative segment [n+p, n+p+g]; y1 - y0 of a segment is *)
(* the count of its category and the top of the stack is the bucket total. *)
(***************************************************************************)
C21_Stacking ==
  Rendered(view, chartType, data) = "stacked-y" =>
    \A ds \in {stackedDataset(data)} : \A series \in {stackGen(ds)} :
      \A j \in 1..Len(ds) :
        /\ series[1][j] = <<0, ds[j].neutral>>
        /\ series[2][j] = <<ds[j].neutral, ds[j].neutral + ds[j].positive>>
        /\ series[3][j] = <<ds[j].neutral + ds[j].positive, total(ds[j])>>
        /\ \A i \in 1..3 : series[i][j][2] - series[i][j][1] = valueOf(ds[j], stackKeys[i])

\* a year bucket with one row of each category, after a bucket of another year
C21_Witness ==
  /\ Rendered(view, chartType, data) = "stacked-y"
  /\ Len(stackedDataset(data)) = 1
  /\ stackedDataset(data)[1].neutral = 1
  /\ stackedDataset(data)[1].positive = 1
  /\ stackedDataset(data)[1].negative = 1
  /\ stackGen(stackedDataset(data))[3][1] = <<2, 3>>

(***************************************************************************)
(* C22: the y-domain of the stacked bar is computed over the whole series: *)
(* its lower bound is the least stack bottom and its upper bound the       *)
(* greatest stack top (0 and the largest bucket total), so every segment   *)
(* of every bucket lies inside the domain.                                 *)
(***************************************************************************)
stackBottoms(series) == {series[i][j][1] : i \in 1..Len(series), j \in 1..Len(series[1])}
stackTops(series) == {series[i][j][2] : i \in 1..Len(series), j \in 1..Len(series[1])}
segmentsInside(series, dom) ==
  \A i \in 1..Len(series) : \A j \in 1..Len(series[i]) :
    dom[1] <= series[i][j][1] /\ series[i][j][2] <= dom[2]

C22_NiceWitness ==
  /\ Rendered(view, chartType, data) = "stacked-y"
  /\ yMax(stackedDataset(data)) = 15
  /\ yDomain(stackedDataset(data)) = <<0, 16>>

(***************************************************************************)
(* C23: splitCSVLine honors quoting: a comma inside a quoted field does    *)
(* not split the field, a doubled quote inside a quoted field yields one   *)
(* quote character, the enclosing quotes are not part of the value, and    *)
(* the number of fields is one more than the number of commas outside      *)
(* quotes.                                                                 *)
(***************************************************************************)
Q == "\""
\* the line of the file after its header line
fileLine == SubSeq(csvFile, Len(FileHeader) + 2, Len(csvFile))

\* a comma is outside quotes when an even number of quote characters precedes it
quotesBefore(line, k) == Cardinality({j \in 1..(k - 1) : line[j] = Q})
outsideCommas(line) ==
  {k \in 1..Len(line) : line[k] = "," /\ quotesBefore(line, k) % 2 = 0}
nthComma(line, n) ==
  CHOOSE k \in outsideCommas(line) :
    Cardinality({j \in outsideCommas(line) : j < k}) = n - 1
segment(line, n) ==
  SubSeq(line,
         IF n = 1 THEN 1 ELSE nthComma(line, n - 1) + 1,
         IF n = Cardinality(outsideCommas(line)) + 1 THEN Len(line)
         ELSE nthComma(line, n) - 1)

\* inside a quoted field quotes come in pairs; each pair stands for one quote
RECURSIVE pairsOnly(_)
pairsOnly(s) ==
  IF s = <<>> THEN TRUE
  ELSE IF Head(s) = Q THEN Len(s) >= 2 /\ s[2] = Q /\ pairsOnly(Tail(Tail(s)))
  ELSE pairsOnly(Tail(s))
RECURSIVE collapse(_)
collapse(s) ==
  IF s = <<>> THEN <<>>
  ELSE IF Head(s) = Q THEN <<Q>> \o collapse(Tail(Tail(s)))
  ELSE <<Head(s)>> \o collapse(Tail(s))

isPlain(seg) == \A k \in 1..Len(seg) : seg[k] # Q
isQuoted(seg) ==
  Len(seg) >= 2 /\ seg[1] = Q /\ seg[Len(seg)] = Q /\ pairsOnly(SubSeq(seg, 2, Len(seg) - 1))
fieldValue(seg) == IF isPlain(seg) THEN seg ELSE collapse(SubSeq(seg, 2, Len(seg) - 1))
wellFormedLine(line) ==
  \A n \in 1..(Cardinality(outsideCommas(line)) + 1) :
    isPlain(segment(line, n)) \/ isQuoted(segment(line, n))

C23_Quoting ==
  page = "csv" /\ csvFile # <<>> =>
    \A line \in {fileLine} : \A fields \in {splitCSVLine(line)} :
      /\ Len(fields) = Cardinality(outsideCommas(line)) + 1
      /\ wellFormedLine(line) =>
           \A n \in 1..Len(fields) : fields[n] = fieldValue(segment(line, n))
      /\ \A i \in 1..Len(loads) :
           loads[i].res = "ok" /\ line # <<>> =>
             /\ Len(currentData) = 1
             /\ currentData[1].date = fields[1]
             /\ currentData[1].score = (IF Len(fields) >= 2 THEN fields[2] ELSE <<>>)

\* the loaded line  ",","a""a"  : a quoted comma, then a quoted field with a
\* doubled quote
C23_Witness ==
  /\ page = "csv"
  /\ fileLine = QuotedLine
  /\ \E i \in 1..Len(loads) : loads[i].res = "ok"
  /\ currentData = <<[date |-> <<",">>, score |-> <<"a", Q, "a">>]>>

(***************************************************************************)
(* C24 (React page): the rows are written only by the missing-selection    *)
(* branch of loadTicker and by a fetch that settles.  A step that changes  *)
(* the ticker or the exchange changes that one field and leaves rows,      *)
(* status and loading alone; a step that enters Loading leaves the rows    *)
(* alone; so after a selection change, and while its fetch is in flight,   *)
(* the store holds the rows written by the call that settled last.         *)
(***************************************************************************)
becomesDone ==
  \E i \in 1..Len(loads') :
    loads'[i].pc = "done" /\ (i > Len(loads) \/ loads[i].pc # "done")

C24_Step ==
  page = "react" =>
    /\ ticker' # ticker =>
         exchange' = exchange /\ data' = data /\ status' = status /\ loading' = loading
    /\ exchange' # exchange =>
         ticker' = ticker /\ data' = data /\ status' = status /\ loading' = loading
    /\ FetchIssued => data' = data /\ loading' /\ status' = LoadingStatus(loads'[Len(loads')].ticker)
    /\ data' # data => becomesDone

exportFileName ==
  (IF currentTicker = <<>> THEN <<"d","a","t","a">> ELSE currentTicker)
    \o <<".","c","s","v">>

pairOf(l) ==
  IF l.res = "ok"
  THEN <<toUpperCase(l.ticker), parsePipeText(PipeBody(l.ticker))>>
  ELSE <<(<<>>), (<<>>)>>

C25_State ==
  page = "vanilla" =>
    /\ \/ currentTicker = <<>> /\ currentData = <<>>
       \/ \E i \in 1..Len(loads) :
            /\ loads[i].res = "ok"
            /\ i = lastSettled
            /\ currentTicker = toUpperCase(loads[i].ticker)
            /\ currentData = parsePipeText(PipeBody(loads[i].ticker))
    /\ currentData # <<>> =>
         exportFileName = toUpperCase(loads[lastSettled].ticker) \o <<".","c","s","v">>

C25_Step ==
  page = "vanilla" /\ <<currentTicker, currentData>>' # <<currentTicker, currentData>> =>
    /\ lastSettled' \in 1..Len(loads')
    /\ loads'[lastSettled'].pc = "done"
    /\ lastSettled' > Len(loads) \/ loads[lastSettled'].pc # "done"
    /\ <<currentTicker, currentData>>' = pairOf(loads'[lastSettled'])

C25_TickerAndRowsTogether == []C25_State /\ [][C25_Step]_vars

\* two overlapping fetches for different tickers, the older one settled last, and
\* its ticker and rows are the ones held
C25_Witness ==
  /\ page = "vanilla"
  /\ Len(loads) = 2
  /\ loads[1].res = "ok" /\ loads[2].res = "ok"
  /\ lastSettled = 1
  /\ toUpperCase(loads[1].ticker) # toUpperCase(loads[2].ticker)
  /\ currentTicker = toUpperCase(loads[1].ticker)
  /\ currentData = parsePipeText(PipeBody(loads[1].ticker))
  /\ currentData # <<>>
  /\ currentData # parsePipeText(PipeBody(loads[2].ticker))

(***************************************************************************)
(* C26 (calendar): once the clamp effect has run, minYear <= selectedYear  *)
(* <= maxYear for the years of the current rows; when new rows put         *)
(* selectedYear outside [minYear, maxYear] it becomes maxYear, and when it *)
(* is still inside it is kept; the year picker offers exactly the years    *)
(* minYear..maxYear, each once.                                            *)
(***************************************************************************)
C26_State ==
  page = "main" /\ calendarMounted(view, chartType, data) =>
    /\ minYear(data) <= selectedYear /\ selectedYear <= maxYear(data)
    /\ \A opts \in {yearOptions(minYear(data), maxYear(data))} :
         /\ elements(opts) = minYear(data)..maxYear(data)
         /\ Len(opts) = maxYear(data) - minYear(data) + 1

C26_Step ==
  ( /\ page = "main"
    /\ data' # data
    /\ calendarMounted(view, chartType, data)
    /\ calendarMounted(view', chartType', data') ) =>
      selectedYear' = IF selectedYear < minYear(data') \/ selectedYear > maxYear(data')
                      THEN maxYear(data') ELSE selectedYear

C26_YearInRange == []C26_State /\ [][C26_Step]_vars

\* rows of two years, and the earlier year is the one selected
C26_Witness ==
  /\ page = "main"
  /\ calendarMounted(view, chartType, data)
  /\ minYear(data) < maxYear(data)
  /\ selectedYear = minYear(data)

\* the rows lost the year that was selected: only an unparseable date is left,
\* the picker shows the year of the clock and that year is selected
C26_ResetWitness ==
  /\ page = "main"
  /\ calendarMounted(view, chartType, data)
  /\ \A i \in 1..Len(data) : ~parseDay(data[i].date).ok
  /\ selectedYear = ThisYear

(***************************************************************************)
(* C27: the views agree on the tallies.  For every row sequence the store  *)
(* holds, the donut's neutral, positive and negative totals equal the sums *)
(* of the neutral, positive and negative counts over all year buckets of   *)
(* the stacked bar chart.                                                  *)
(***************************************************************************)
RECURSIVE sumOf(_, _)
sumOf(ds, key) == IF ds = <<>> THEN 0 ELSE valueOf(Head(ds), key) + sumOf(Tail(ds), key)

C27_TalliesAgree ==
  page = "main" /\ data # <<>> =>
    \A k \in {"neutral", "positive", "negative"} :
      valueOf(donutCounts(data), k) = sumOf(stackedDataset(data), k)

(***************************************************************************)
(* C28: the donut counts every row in exactly one category, so that        *)
(* neutral + positive + negative is the number of rows, and its percentage *)
(* round(positive / total * 100) is never computed with total = 0, since   *)
(* the donut is rendered only while the store holds at least one row.      *)
(***************************************************************************)
C28_DonutTotals ==
  Rendered(view, chartType, data) = "donut" =>
    /\ Len(data) > 0
    /\ total(donutCounts(data)) = Len(data)
    /\ \A i \in 1..Len(data) : donutKey(data[i].score) \in {"neutral", "positive", "negative"}
    /\ isFinite(donutPercent(data))
    /\ donutPercent(data).value \in 0..100

\* the donut of a row with score 5 and a positive row: 50% Positive
C28_Witness ==
  /\ Rendered(view, chartType, data) = "donut"
  /\ \E i \in 1..Len(data) : data[i].score = Num(5)
  /\ donutCounts(data).positive = 1
  /\ Len(data) = 2
  /\ donutPercent(data) = Num(50)

(***************************************************************************)
(* C29: the sparkline series has exactly one point per distinct day among  *)
(* the rows with a parseable date and a finite score; the point of a day   *)
(* is the last such row of that day in input order; the points are         *)
(* strictly ascending by date; with fewer than 2 points no line is drawn   *)
(* and only the label is rendered.                                         *)
(***************************************************************************)
sparkValid(rows) ==
  {i \in 1..Len(rows) : parseDay(rows[i].date).ok /\ isFinite(rows[i].score)}

sparkDays(rows) == {parseDay(rows[i].date).day : i \in sparkValid(rows)}

lastOfDay(rows, day) ==
  greatest({i \in sparkValid(rows) : parseDay(rows[i].date).day = day})

C29_Sparkline ==
  page = "main" =>
    \A pts \in {processed(data)} :
      /\ Len(pts) = Cardinality(sparkDays(data))
      /\ {pts[k].t : k \in 1..Len(pts)} = sparkDays(data)
      /\ \A k \in 1..Len(pts) : pts[k].score = data[lastOfDay(data, pts[k].t)].score
      /\ \A k \in 1..(Len(pts) - 1) : pts[k].t < pts[k + 1].t
      /\ \A w \in SparkWidths :
           sparkRender(data, w) = IF Len(pts) < 2 THEN <<"text">>
                                  ELSE <<"path", "circle", "text">>

\* three rows: the later day first, then the earlier day, then the later day again
\* with another score; two points, earlier day first, the later day's last score
C29_Witness ==
  /\ page = "main"
  /\ Len(data) = 3
  /\ data[1].date = D0102 /\ data[2].date = D0101 /\ data[3].date = D0102
  /\ data[1].score = Num(1) /\ data[2].score = Num(0) /\ data[3].score = Num(2)
  /\ Len(processed(data)) = 2
  /\ processed(data)[1].score = Num(0)
  /\ processed(data)[2].score = Num(2)
  /\ sparkRender(data, 0) = <<"path", "circle", "text">>

\* a day whose last row has a score that is not a number keeps its last finite
\* score, and the single point draws no line
C29_LabelOnlyWitness ==
  /\ page = "main"
  /\ Len(data) = 3
  /\ data[1].date = D0101 /\ data[1].score = Num(0)
  /\ data[2].date = D0101 /\ data[2].score = NaN
  /\ data[3].date = DNone
  /\ processed(data) = <<[t |-> parseDay(D0101).day, score |-> Num(0)]>>
  /\ sparkRender(data, 300) = <<"text">>

(***************************************************************************)
(* C30 (theme): after initTheme and after any sequence of toggle clicks    *)
(* the stored 'theme' is 'dark' exactly when the root element has the      *)
(* 'dark' class (and aria-pressed is 'true'), each click flips the theme,  *)
(* and two consecutive clicks restore the previous theme and the stored    *)
(* value.                                                                  *)
(***************************************************************************)
twoClicks == clicked(page, clicked(page, themeNow, storageOk), storageOk)

C30_ThemeConsistent ==
  page \in {"react", "vanilla"} /\ booted =>
    /\ (storedTheme = "dark") <=> rootDark
    /\ page = "vanilla" => (ariaPressed = "true" <=> rootDark)
    /\ clicked(page, themeNow, storageOk).rootDark = ~rootDark
    /\ twoClicks.rootDark = rootDark
    /\ twoClicks.storedTheme = storedTheme

\* C30 as amended: the stored value follows the class while the storage takes
\* writes; aria-pressed follows the class on the page script; a click flips the
\* class and writes 'dark' or 'light', or leaves the stored value when the write
\* throws; two clicks restore the class, and the stored value when it was 'dark'
\* or 'light' or cannot be written.
C30_State ==
  page \in {"react", "vanilla"} /\ booted =>
    /\ storageOk => ((storedTheme = "dark") <=> rootDark)
    /\ page = "vanilla" => ariaPressed = boolString(rootDark)
    /\ \A c \in {clicked(page, themeNow, storageOk)} :
         /\ c.rootDark = ~rootDark
         /\ storageOk => c.storedTheme = (IF rootDark THEN "light" ELSE "dark")
         /\ ~storageOk => c.storedTheme = storedTheme
    /\ twoClicks.rootDark = rootDark
    /\ (storedTheme \in {"dark", "light"} \/ ~storageOk) => twoClicks.storedTheme = storedTheme
    /\ (storageOk /\ storedTheme \notin {"dark", "light"}) => twoClicks.storedTheme = "light"

C30_Step ==
  page \in {"react", "vanilla"} /\ booted => themeNow' = clicked(page, themeNow, storageOk)

C30_ThemeWhileWritable == []C30_State /\ [][C30_Step]_vars

\* the React page, dark, with 'dark' stored by a click
C30_Witness ==
  /\ page = "react"
  /\ booted
  /\ storageOk
  /\ rootDark
  /\ storedTheme = "dark"
  /\ twoClicks = themeNow

\* the React page after a first visit and two clicks: light again, 'light' stored
\* where nothing was; and the page script with a storage that throws: dark, with
\* 'light' stored
C30_FirstVisitWitness ==
  /\ page = "react" /\ booted /\ storageOk /\ ~rootDark /\ storedTheme = NoItem
  /\ twoClicks.storedTheme = "light"

C30_UnwritableWitness ==
  /\ page = "vanilla" /\ booted /\ ~storageOk /\ rootDark /\ storedTheme = "light"
  /\ ariaPressed = "true"

====
